---- MODULE Spec2Model ----
(***************************************************************************)
(* A model of nxplay's main_pipeline: the playback state machine, the      *)
(* current/next stream slots, the single postponed task, and the parts of  *)
(* the GStreamer pipeline (state, bus) the controller reacts to.           *)
(*                                                                         *)
(* Every *_nolock function of main_pipeline.cpp is an operator from a      *)
(* state record to a state record; an action is one locked operation (an   *)
(* API call, one bus watch invocation, one timer invocation) or one step   *)
(* of a thread that runs without the loop mutex (the EOS probe, the        *)
(* pad-added callback, the buffering-block probe, the bus sync handler,    *)
(* the engine).                                                            *)
(*                                                                         *)
(* Left out: positions, buffer levels and what the callbacks to the user   *)
(* do (that they are called is recorded), which do not feed back into the  *)
(* state machine. The engine posts tag messages in TagSpec only,           *)
(* duration-changed messages in IdleSpec only and state requests in        *)
(* RequestSpec only.                                                       *)
(* block_buffering is taken as atomic with the probe's test of the flag.   *)
(***************************************************************************)
EXTENDS Integers, Sequences, FiniteSets, TLC

\* ---------------------------------------------------------------- bounds

\* The bus holds at most MaxBus messages of the engine (state-changed,
\* stream-start, EOS, error) that were posted and are not handled yet.
MaxBus == 1
\* The application makes at most MaxCalls calls of the API in one run.
MaxCalls == 3

\* Media are identified by their URI; the empty URI is the invalid media.
ValidMedia == {"A", "B", "C"}
Media == ValidMedia \cup {""}

\* The (token, media) pairs the application calls play_media with: A under
\* its own token, B and its replacement C under a second token, and the
\* invalid media under either.
Requests == {<<1, "A">>, <<2, "B">>, <<2, "C">>, <<1, "">>, <<2, "">>}

States == {"idle", "starting", "stopping", "seeking", "buffering", "playing", "paused"}
SteadyStates == {"idle", "playing", "paused"}
TransitionalStates == {"starting", "stopping", "seeking", "buffering"}

VARIABLES
    m_state,                    \* states m_state
    m_current_stream,           \* stream_sptr m_current_stream (NoStream: null)
    m_next_stream,              \* stream_sptr m_next_stream
    m_postponed_task,           \* postponed_task m_postponed_task
    m_seeking_data,             \* seeking_data m_seeking_data
    m_current_gstreamer_state,  \* last state a STATE_CHANGED message reported
    m_pending_gstreamer_state,  \* GstState m_pending_gstreamer_state
    m_pipeline_elem,            \* TRUE iff m_pipeline_elem != nullptr
    m_stream_eos_seen,          \* flag raised by the stream EOS probe
    m_timeout_source,           \* TRUE iff the periodic timer is attached
    m_aggregated_tag_list,      \* tag_list m_aggregated_tag_list
    m_postponed_tags_list,      \* tag_list m_postponed_tags_list
    m_tags_to_always_postpone,  \* std::set < std::string > m_tags_to_always_postpone
    m_postpone_all_tags,        \* bool m_postpone_all_tags
    m_duration_in_nanoseconds,  \* gint64 m_duration_in_nanoseconds (-1: unknown)
    m_duration_in_bytes,        \* gint64 m_duration_in_bytes (-1: unknown)
    m_loop_mutex,               \* std::mutex m_loop_mutex: "unlocked", or the thread
                                \* that holds it and will never release it
    gst_target,                 \* engine: state last requested with gst_element_set_state
    gst_state,                  \* engine: state the pipeline element is in
    bus,                        \* engine: messages posted and not yet handled, oldest first
    calls,                      \* ghost: the number of API calls made so far
    call,                       \* a call of a function that reads no member: its
                                \* arguments and, once it has returned, its result
    probe,                      \* where the streaming thread of the next stream is in
                                \* static_buffering_block_probe ("out": not in it)
    last,                       \* ghost: the operation that ran last, and what it did
    pause_wanted,               \* ghost: whether a set_paused(true) call is waiting to
                                \* take effect ("-": not followed, see PauseWanted)
    scen                        \* ghost: progress of the token scenario (see Scenario)

vars == <<m_state, m_current_stream, m_next_stream, m_postponed_task, m_seeking_data,
          m_current_gstreamer_state, m_pending_gstreamer_state, m_pipeline_elem,
          m_stream_eos_seen, m_timeout_source, m_aggregated_tag_list,
          m_postponed_tags_list, m_tags_to_always_postpone, m_postpone_all_tags,
          m_duration_in_nanoseconds, m_duration_in_bytes,
          m_loop_mutex, gst_target, gst_state, bus, calls, call, probe, last,
          pause_wanted, scen>>

\* The state as one record, which the *_nolock operators transform.
S == [m_state |-> m_state, m_current_stream |-> m_current_stream,
      m_next_stream |-> m_next_stream, m_postponed_task |-> m_postponed_task,
      m_seeking_data |-> m_seeking_data,
      m_current_gstreamer_state |-> m_current_gstreamer_state,
      m_pending_gstreamer_state |-> m_pending_gstreamer_state,
      m_pipeline_elem |-> m_pipeline_elem, m_stream_eos_seen |-> m_stream_eos_seen,
      m_timeout_source |-> m_timeout_source,
      m_aggregated_tag_list |-> m_aggregated_tag_list,
      m_postponed_tags_list |-> m_postponed_tags_list,
      m_tags_to_always_postpone |-> m_tags_to_always_postpone,
      m_postpone_all_tags |-> m_postpone_all_tags,
      m_duration_in_nanoseconds |-> m_duration_in_nanoseconds,
      m_duration_in_bytes |-> m_duration_in_bytes, m_loop_mutex |-> m_loop_mutex,
      gst_target |-> gst_target,
      gst_state |-> gst_state, bus |-> bus, calls |-> calls, call |-> call,
      probe |-> probe, last |-> last, pause_wanted |-> pause_wanted, scen |-> scen]

Commit(r) ==
    /\ m_state' = r.m_state
    /\ m_current_stream' = r.m_current_stream
    /\ m_next_stream' = r.m_next_stream
    /\ m_postponed_task' = r.m_postponed_task
    /\ m_seeking_data' = r.m_seeking_data
    /\ m_current_gstreamer_state' = r.m_current_gstreamer_state
    /\ m_pending_gstreamer_state' = r.m_pending_gstreamer_state
    /\ m_pipeline_elem' = r.m_pipeline_elem
    /\ m_stream_eos_seen' = r.m_stream_eos_seen
    /\ m_timeout_source' = r.m_timeout_source
    /\ m_aggregated_tag_list' = r.m_aggregated_tag_list
    /\ m_postponed_tags_list' = r.m_postponed_tags_list
    /\ m_tags_to_always_postpone' = r.m_tags_to_always_postpone
    /\ m_postpone_all_tags' = r.m_postpone_all_tags
    /\ m_duration_in_nanoseconds' = r.m_duration_in_nanoseconds
    /\ m_duration_in_bytes' = r.m_duration_in_bytes
    /\ m_loop_mutex' = r.m_loop_mutex
    /\ gst_target' = r.gst_target
    /\ gst_state' = r.gst_state
    /\ bus' = r.bus
    /\ calls' = r.calls
    /\ call' = r.call
    /\ probe' = r.probe
    /\ last' = r.last
    /\ pause_wanted' = r.pause_wanted
    /\ scen' = r.scen

\* ------------------------------------------------------------ data types

\* playback_properties, reduced to the two fields the state machine reads.
\* StartPositions are the values of m_start_at_position the callers use.
StartPositions == {0}
playback_properties == [m_start_paused : BOOLEAN, m_start_at_position : StartPositions]
DefaultProps == [m_start_paused |-> FALSE, m_start_at_position |-> 0]

\* The null stream_sptr.
NoStream == [m_token |-> 0, m_media |-> "", m_playback_properties |-> DefaultProps,
             m_is_buffering |-> FALSE, m_is_live |-> FALSE,
             m_is_live_status_known |-> FALSE, m_is_seekable |-> FALSE,
             m_buffering_is_blocked |-> FALSE, m_queue_elem |-> FALSE,
             m_uridecodebin_elem |-> FALSE, linked |-> FALSE, queued |-> FALSE,
             waiting |-> FALSE]

\* main_pipeline::stream::stream. m_uridecodebin_elem: TRUE iff the
\* uridecodebin and identity elements were created (p_created); the
\* constructor returns early without them, and the object exists all the
\* same. linked: the decodebin pad is linked (ghost of GST_PAD_IS_LINKED);
\* queued: the stream was created for the next slot (ghost); waiting: the
\* streaming thread of the stream waits in static_buffering_block_probe.
stream(p_token, p_media, p_properties, p_queued, p_created) ==
    [m_token |-> p_token, m_media |-> p_media, m_playback_properties |-> p_properties,
     m_is_buffering |-> FALSE, m_is_live |-> FALSE, m_is_live_status_known |-> FALSE,
     m_is_seekable |-> FALSE, m_buffering_is_blocked |-> FALSE, m_queue_elem |-> FALSE,
     m_uridecodebin_elem |-> p_created, linked |-> FALSE, queued |-> p_queued,
     waiting |-> FALSE]

\* postponed_task, fields of the other task types left at their defaults.
\* superseded_by (ghost): the media of the last play_media call that was
\* accepted after the task was recorded, in the same transitional state, and
\* left the task in place; "" if there is none.
\* m_gstreamer_state is read in a type_set_state task only, which the
\* GST_MESSAGE_REQUEST_STATE handler records together with it.
NoTask == [m_type |-> "none", m_paused |-> FALSE, m_media |-> "", m_token |-> 0,
           m_playback_properties |-> DefaultProps, m_gstreamer_state |-> "VOID_PENDING",
           superseded_by |-> "", recorded_in |-> "-"]
PlayTask(p_token, p_media, p_properties) ==
    [NoTask EXCEPT !.m_type = "play", !.m_media = p_media, !.m_token = p_token,
                   !.m_playback_properties = p_properties]
PauseTask(p_paused) == [NoTask EXCEPT !.m_type = "pause", !.m_paused = p_paused]
SetPositionTask == [NoTask EXCEPT !.m_type = "set_position"]
StopTask == [NoTask EXCEPT !.m_type = "stop"]

\* A call of the function p_fn with the arguments p_args, which has not
\* returned; NoCall: no such call is looked at.
Call(p_fn, p_args) == [fn |-> p_fn, args |-> p_args, returned |-> FALSE, result |-> <<>>]
NoCall == Call("none", <<>>)

\* ------------------------------------------------- integers of any width

\* guint and guint64 values, and the 96 bit intermediate product of
\* gst_util_uint64_scale_int, exceed the integers TLC computes with. They
\* are written to the base 1000, lowest digit first, without leading zero
\* digits: 0 is <<>>, 128000 is <<0, 128>>.

\* The digit of p_n at position k, counted from 0.
Digit(p_n, k) == IF k >= 0 /\ k < Len(p_n) THEN p_n[k + 1] ELSE 0

\* p_digits without its leading zero digits.
Normalized(p_digits) ==
    SubSeq(p_digits, 1,
           IF \E i \in DOMAIN p_digits : p_digits[i] # 0
           THEN CHOOSE i \in DOMAIN p_digits :
                   p_digits[i] # 0 /\ \A j \in DOMAIN p_digits : j > i => p_digits[j] = 0
           ELSE 0)

\* p_a < p_b
Less(p_a, p_b) ==
    \/ Len(p_a) < Len(p_b)
    \/ /\ Len(p_a) = Len(p_b)
       /\ \E i \in DOMAIN p_a :
             p_a[i] < p_b[i] /\ \A j \in DOMAIN p_a : j > i => p_a[j] = p_b[j]

\* std::min
Min(p_a, p_b) == IF Less(p_b, p_a) THEN p_b ELSE p_a

\* p_a * p_b: the columns of the long multiplication, then the carries.
Times(p_a, p_b) ==
    LET n == Len(p_a) + Len(p_b)
        column[k \in 0..n, i \in 0..n] ==
            Digit(p_a, i) * Digit(p_b, k - i) + (IF i = 0 THEN 0 ELSE column[k, i - 1])
        carry[k \in 0..n] ==
            IF k = 0 THEN 0 ELSE (column[k - 1, n] + carry[k - 1]) \div 1000
    IN Normalized([k \in 1..n |-> (column[k - 1, n] + carry[k - 1]) % 1000])

\* p_a / p_small rounded down, for 0 < p_small <= 1000: the long division
\* from the highest digit, above[i] its remainder above digit i.
DividedBy(p_a, p_small) ==
    LET above[i \in 1..(Len(p_a) + 1)] ==
            IF i = Len(p_a) + 1 THEN 0
            ELSE (above[i + 1] * 1000 + p_a[i]) % p_small
    IN Normalized([i \in 1..Len(p_a) |-> (above[i + 1] * 1000 + p_a[i]) \div p_small])

G_MAXUINT == <<295, 967, 294, 4>>
G_MAXUINT64 == <<615, 551, 709, 73, 744, 446, 18>>
\* GST_SECOND, in nanoseconds
GST_SECOND == <<0, 0, 0, 1>>

\* gst_util_uint64_scale_int(p_val, p_num, GST_SECOND): p_val * p_num /
\* GST_SECOND rounded down, computed without overflow of the product;
\* G_MAXUINT64 if the result does not fit 64 bits. GST_SECOND is 1000^3, so
\* the division drops the three lowest digits.
gst_util_uint64_scale_int(p_val, p_num) ==
    LET product == Times(p_val, p_num)
        quotient == SubSeq(product, Len(GST_SECOND), Len(product))
    IN IF Less(G_MAXUINT64, quotient) THEN G_MAXUINT64 ELSE quotient

\* A stream update_buffer_limits that does not clamp to the configured limit.
update_buffer_limits_unclamped(p_bitrate, p_buffer_estimation_duration, p_buffer_size_limit) ==
    LET scaled == gst_util_uint64_scale_int(p_buffer_estimation_duration,
                                            DividedBy(p_bitrate, 8))
    IN IF p_bitrate # <<>> /\ p_buffer_estimation_duration # <<>> /\ scaled # <<>>
       THEN Min(scaled, G_MAXUINT)
       ELSE p_buffer_size_limit

\* main_pipeline::stream::update_buffer_limits: the value it gives
\* m_effective_buffer_size_limit, from m_bitrate, m_buffer_estimation_duration
\* and m_buffer_size_limit.
update_buffer_limits(p_bitrate, p_buffer_estimation_duration, p_buffer_size_limit) ==
    LET scaled == gst_util_uint64_scale_int(p_buffer_estimation_duration,
                                            DividedBy(p_bitrate, 8))
        calc_size_limit ==
            IF p_bitrate # <<>> /\ Less(<<>>, p_buffer_estimation_duration)
            THEN (IF Less(G_MAXUINT, scaled) THEN G_MAXUINT ELSE scaled)
            ELSE <<>>
    IN IF calc_size_limit = <<>>
       THEN p_buffer_size_limit
       ELSE Min(p_buffer_size_limit, calc_size_limit)

\* The bitrates a stream finds (bit/s), the estimation durations (ns) and
\* the size limits (bytes) the application configures.
Bitrates == {<<>>, <<7>>, <<8>>, <<0, 128>>, <<0, 320>>, G_MAXUINT}
EstimationDurations ==
    {<<>>, <<1>>, <<999, 999, 999>>, GST_SECOND, Times(GST_SECOND, <<2>>), G_MAXUINT64}
SizeLimits == {<<>>, <<1>>, <<999, 31>>, <<0, 32>>, <<152, 97, 2>>, G_MAXUINT}

\* -------------------------------------------------------------- tag lists

\* tag_list: the tags of the GstTagList in the order of its fields, each a
\* name with its values in order. The null tag list and the empty one, which
\* is_empty does not tell apart, are both NoTags.
NoTags == <<>>

\* Tag names and the values a tag arrives with: one value, another value,
\* and two values.
TagNames == {"title", "bitrate", "minimum-bitrate"}
TagValues == {<<1>>, <<2>>, <<1, 2>>}
\* A tag message carries at most MaxTags tags.
MaxTags == 3
\* block_buffering is called at most MaxBlockCalls times on one stream.
MaxBlockCalls == 8
Tags == [name : TagNames, values : TagValues]
TagLists ==
    {l \in UNION {[1..n -> Tags] : n \in 0..MaxTags} :
        \A i, j \in DOMAIN l : l[i].name = l[j].name => i = j}

\* The tag lists the stream posts: any tags, each with the value 1, and the
\* bitrate alone, changed to 2.
TagMessages ==
    {l \in TagLists : \A i \in DOMAIN l : l[i].values = <<1>>}
        \cup {<<[name |-> "bitrate", values |-> <<2>>]>>}

\* tag_list::is_empty
is_empty(p_tag_list) == p_tag_list = NoTags

has_value(p_tag_list, p_name) == \E i \in DOMAIN p_tag_list : p_tag_list[i].name = p_name

\* The field of the tag p_name, which the list has.
tag_index(p_tag_list, p_name) == CHOOSE i \in DOMAIN p_tag_list : p_tag_list[i].name = p_name

get_num_values_for_tag(p_tag_list, p_name) ==
    IF has_value(p_tag_list, p_name)
    THEN Len(p_tag_list[tag_index(p_tag_list, p_name)].values)
    ELSE 0

\* p_index counts from 0.
get_raw_value(p_tag_list, p_name, p_index) ==
    p_tag_list[tag_index(p_tag_list, p_name)].values[p_index + 1]

\* add_raw_value with GST_TAG_MERGE_APPEND, the mode of every call: a new tag
\* becomes the last field, a value of a tag the list has becomes its last
\* value.
add_raw_value(p_tag_list, p_value, p_name) ==
    IF has_value(p_tag_list, p_name)
    THEN [p_tag_list EXCEPT ![tag_index(p_tag_list, p_name)].values = Append(@, p_value)]
    ELSE Append(p_tag_list, [name |-> p_name, values |-> <<p_value>>])

\* for (index = 0; index < get_num_values_for_tag(p_from, p_name); ++index)
\*     add_raw_value(p_tag_list, get_raw_value(p_from, p_name, index), p_name, APPEND)
add_raw_values(p_tag_list, p_from, p_name) ==
    LET n == get_num_values_for_tag(p_from, p_name)
        added[index \in 0..n] ==
            IF index = 0 THEN p_tag_list
            ELSE add_raw_value(added[index - 1], get_raw_value(p_from, p_name, index - 1),
                               p_name)
    IN added[n]

\* gst_tag_list_remove_tag: the fields after the removed one move up.
gst_tag_list_remove_tag(p_tag_list, p_name) ==
    IF ~has_value(p_tag_list, p_name) THEN p_tag_list
    ELSE LET at == tag_index(p_tag_list, p_name)
         IN [i \in 1..(Len(p_tag_list) - 1) |->
                IF i < at THEN p_tag_list[i] ELSE p_tag_list[i + 1]]

\* tag_list::insert with GST_TAG_MERGE_REPLACE, the mode of every call: the
\* values of a tag the list has are replaced in place, a new tag becomes the
\* last field.
insert(p_tag_list, p_other) ==
    LET merged[k \in 0..Len(p_other)] ==
            IF k = 0 THEN p_tag_list
            ELSE IF has_value(merged[k - 1], p_other[k].name)
                 THEN [merged[k - 1] EXCEPT
                          ![tag_index(merged[k - 1], p_other[k].name)].values =
                              p_other[k].values]
                 ELSE Append(merged[k - 1], p_other[k])
    IN merged[Len(p_other)]

\* The tag p_name of p_other has the values the reference has for it.
tag_is_equal(p_reference, p_other, p_name) ==
    /\ has_value(p_reference, p_name)
    /\ get_num_values_for_tag(p_other, p_name) = get_num_values_for_tag(p_reference, p_name)
    /\ \A index \in 0..(get_num_values_for_tag(p_other, p_name) - 1) :
          get_raw_value(p_other, p_name, index) = get_raw_value(p_reference, p_name, index)

\* A calculate_new_tags that returns the tags the reference does not have.
calculate_new_tags_additions_only(p_reference, p_other) ==
    LET result[num \in 0..Len(p_other)] ==
            IF num = 0 THEN NoTags
            ELSE IF has_value(p_reference, p_other[num].name)
                 THEN result[num - 1]
                 ELSE add_raw_values(result[num - 1], p_other, p_other[num].name)
    IN result[Len(p_other)]

\* calculate_new_tags: result[num] is the result after num rounds of the loop.
calculate_new_tags(p_reference, p_other) ==
    LET result[num \in 0..Len(p_other)] ==
            IF num = 0 THEN NoTags
            ELSE IF tag_is_equal(p_reference, p_other, p_other[num].name)
                 THEN result[num - 1]
                 ELSE add_raw_values(result[num - 1], p_other, p_other[num].name)
    IN result[Len(p_other)]

\* The loop of the GST_MESSAGE_TAG handler that moves the tags of
\* m_tags_to_always_postpone from new_tags to m_postponed_tags_list: one
\* round, on the loop's variables. The round that removes the tag at num
\* from new_tags goes on with num + 1.
postpone_round(p_loop, p_always) ==
    LET name == p_loop.new_tags[p_loop.num + 1].name
        without == gst_tag_list_remove_tag(p_loop.postponed, name)
    IN IF name \notin p_always
       THEN [p_loop EXCEPT !.tags_left = TRUE, !.num = @ + 1]
       ELSE [p_loop EXCEPT
                !.postponed = add_raw_values(without, p_loop.new_tags, name),
                !.new_tags = gst_tag_list_remove_tag(@, name),
                !.num = @ + 1]

\* The loop: for (num = 0; num < gst_tag_list_n_tags(new_tags); ++num). It
\* makes at most as many rounds as new_tags has tags at its start.
postpone_tags(p_new_tags, p_postponed, p_always) ==
    LET loop[k \in 0..Len(p_new_tags)] ==
            IF k = 0
            THEN [num |-> 0, new_tags |-> p_new_tags, postponed |-> p_postponed,
                  tags_left |-> FALSE]
            ELSE IF loop[k - 1].num < Len(loop[k - 1].new_tags)
                 THEN postpone_round(loop[k - 1], p_always)
                 ELSE loop[k - 1]
    IN loop[Len(p_new_tags)]

\* What the operation that ran last was and did (ghost).
\*   op, token, media, play_now, properties, paused: the call and its arguments
\*   from: m_state when an API call began ("-" for the other operations)
\*   same_token: play_media found a current stream with the token of the call
\*   on_promoted: play_media found a current stream that had been queued as next
\*   stale: an API call began while m_stream_eos_seen was raised with a next stream
\*   ret: the value returned; failed: the engine refused during the operation
\*   nreq: the number of PAUSED and PLAYING requests made to the engine
\*   promoted: the media make_next_stream_current_nolock made current ("-": none)
\*   ran: the type of the postponed task handle_postponed_task_nolock ran
\*   seek_failed: gst_element_seek was called and failed
\*   stream_failed: a stream was constructed and its elements were not created
\*   callback: the error, end_of_stream or media_started callback the
\*     operation called
\*   destroyed: a stream with elements was destroyed and its pipeline lives on
\*   destroyed_blocked: a stream with elements was destroyed while its
\*     m_buffering_is_blocked was set
\*   sync: what static_bus_sync_handler returned for the error message posted
\*   src_marked: the object that posted it carried the shutting-down marker
\*   state_changed: set_state_nolock called the state_changed callback
\*   new_tags: the tags the new_tags callback was called with (NoTags: it
\*     was not called); by: the caller, "tag_handler" or "timer"
\*   msg: the type of the message the bus watch took off the bus ("-": none)
\*   flag_kept: a buffering report of the current stream met its buffering
\*     flag as the report would set it
NoLast == [op |-> "none", token |-> 0, media |-> "", play_now |-> FALSE,
           properties |-> DefaultProps, paused |-> FALSE, from |-> "-",
           same_token |-> FALSE, on_promoted |-> FALSE, stale |-> FALSE,
           ret |-> TRUE, failed |-> FALSE, nreq |-> 0, promoted |-> "-",
           ran |-> "none", seek_failed |-> FALSE, stream_failed |-> FALSE,
           callback |-> "none", destroyed |-> FALSE, sync |-> "-",
           src_marked |-> FALSE, state_changed |-> FALSE, by |-> "-",
           new_tags |-> NoTags, msg |-> "-", flag_kept |-> FALSE,
           destroyed_blocked |-> FALSE]

\* media.cpp: is_valid
is_valid(p_media) == p_media # ""

\* What the decoder of a media finds out about it: A is a file fetched over
\* the network (seekable, buffered by a queue element), B is a live stream,
\* C is a local file (seekable, decoded without a queue element).
\* The latency query (gst_pad_query) of a stream of A may fail (p_ok false).
seeking_query(p_media) == p_media \in {"A", "C"}
has_queue(p_media) == p_media = "A"
latency_query(p_media, p_ok) ==
    IF ~p_ok /\ p_media = "A" THEN "fail" ELSE IF p_media = "B" THEN "live" ELSE "nonlive"

\* ------------------------------------------------- the engine (GStreamer)

\* gst_element_set_state on the pipeline element, for PAUSED and PLAYING: the
\* request is recorded and carried out later by EngineStep, which posts the
\* STATE_CHANGED message. nreq counts the PAUSED and PLAYING requests of the
\* running operation.
gst_element_set_state(s, p_state) ==
    [s EXCEPT !.gst_target = p_state, !.last.nreq = @ + 1]

\* gst_element_set_state(m_pipeline_elem, GST_STATE_NULL): always synchronous;
\* a pipeline that goes to NULL flushes its bus.
gst_element_set_state_null(s) ==
    [s EXCEPT !.gst_target = "NULL", !.gst_state = "NULL", !.bus = <<>>]

\* Messages of the engine on the bus.
StateChangedMsg(p_old, p_new) == [type |-> "state_changed", old |-> p_old, new |-> p_new]
StreamStartMsg == [type |-> "stream_start", old |-> "-", new |-> "-"]
EosMsg == [type |-> "eos", old |-> "-", new |-> "-"]
\* src_marked: GST_MESSAGE_SRC carries the element_shutdown_marker.
ErrorMsg(p_src_marked) ==
    [type |-> "error", old |-> "-", new |-> "-", src_marked |-> p_src_marked]

\* static_bus_sync_handler that passes every message on
bus_sync_handler_passing_all(p_msg) == "PASS"

static_bus_sync_handler(p_msg) ==
    IF p_msg.type = "error" /\ p_msg.src_marked THEN "DROP" ELSE "PASS"

\* main_pipeline::stream::~stream, as far as the rest can see it: the
\* children of the uridecodebin carry the marker while the elements are
\* shut down. gst_element_set_state(m_uridecodebin_elem, GST_STATE_NULL)
\* deactivates the pads and joins the streaming thread: it does not return
\* while that thread waits in static_buffering_block_probe (s.stuck).
stream_destroyed(s, p_stream) ==
    IF p_stream.m_uridecodebin_elem
    THEN [s EXCEPT !.last.destroyed = TRUE,
                   !.last.destroyed_blocked = @ \/ p_stream.m_buffering_is_blocked,
                   !.stuck = @ \/ p_stream.waiting]
    ELSE s

\* ------------------------------------------------ main_pipeline, private

\* is_transitioning_nolock without the test of m_state
is_transitioning_without_state(s) == s.m_pending_gstreamer_state # "VOID_PENDING"

is_transitioning_nolock(s) ==
    IF s.m_state \in {"starting", "stopping", "seeking", "buffering"}
    THEN TRUE
    ELSE s.m_pending_gstreamer_state # "VOID_PENDING"

\* Returns the state; the bool it returns in the code is FALSE exactly when
\* the engine rejects the request (see state_change_fails).
set_gstreamer_state_nolock(s, p_new_gstreamer_state) ==
    IF s.m_current_gstreamer_state = p_new_gstreamer_state
    THEN s
    ELSE gst_element_set_state(s, p_new_gstreamer_state)

\* GST_STATE_CHANGE_FAILURE: the engine rejects a request that is not redundant.
\* Only the request play_media makes for a new current stream is let fail.
state_change_fails(s, p_new_gstreamer_state) ==
    /\ s.m_current_gstreamer_state # p_new_gstreamer_state
    /\ ~s.env.state_ok

set_state_nolock(s, p_new_state) ==
    [s EXCEPT !.m_state = p_new_state, !.last.state_changed = TRUE]

\* A reset that leaves the stored durations alone.
set_initial_state_values_keeping_durations(s) ==
    [s EXCEPT !.m_current_gstreamer_state = "NULL",
              !.m_pending_gstreamer_state = "VOID_PENDING",
              !.m_stream_eos_seen = FALSE,
              !.m_aggregated_tag_list = NoTags,
              !.m_postponed_tags_list = NoTags]

set_initial_state_values_nolock(s) ==
    [s EXCEPT !.m_current_gstreamer_state = "NULL",
              !.m_pending_gstreamer_state = "VOID_PENDING",
              !.m_stream_eos_seen = FALSE,
              !.m_duration_in_nanoseconds = -1,
              !.m_duration_in_bytes = -1,
              !.m_aggregated_tag_list = NoTags,
              !.m_postponed_tags_list = NoTags]

\* What the engine knows of the length of a media once the pipeline has
\* prerolled it: both lengths of A, none of the live stream B, and the
\* playing time of C only (-1: gst_element_query_duration fails).
Units == {"nanoseconds", "bytes"}
MediaDuration(p_media, p_unit) ==
    CASE p_media = "A" -> IF p_unit = "nanoseconds" THEN 30 ELSE 4000
      [] p_media = "C" -> IF p_unit = "nanoseconds" THEN 50 ELSE -1
      [] OTHER -> -1

gst_element_query_duration(s, p_unit) ==
    IF s.gst_state \in {"PAUSED", "PLAYING"} /\ s.m_current_stream # NoStream
    THEN MediaDuration(s.m_current_stream.m_media, p_unit)
    ELSE -1

query_duration_nolock(s, p_unit) ==
    IF ~s.m_pipeline_elem \/ s.m_state = "idle" THEN -1
    ELSE gst_element_query_duration(s, p_unit)

\* An updated duration is one that is forced or differs from the stored one:
\* storing the updated ones is storing both. The duration_updated callback
\* is set.
update_durations_nolock(s) ==
    IF s.m_current_stream # NoStream
    THEN [s EXCEPT !.m_duration_in_nanoseconds = query_duration_nolock(s, "nanoseconds"),
                   !.m_duration_in_bytes = query_duration_nolock(s, "bytes")]
    ELSE s

\* main_pipeline::get_current_position, where p_position is what the engine
\* answers to the position query (-1: the query fails).
Positions == {-1, 0, 7}
get_current_position(s, p_position) ==
    IF ~s.m_pipeline_elem \/ s.m_state = "idle" THEN -1 ELSE p_position

\* main_pipeline::get_duration
get_duration(s, p_unit) ==
    CASE p_unit = "nanoseconds" -> s.m_duration_in_nanoseconds
      [] p_unit = "bytes" -> s.m_duration_in_bytes
      [] OTHER -> -1

\* main_pipeline::stream::block_buffering, on a slot that may be empty.
\* notify_all wakes the streaming thread that waits in the probe, which
\* goes on waiting if the flag is still set.
block_buffering(p_stream, p_do_block) ==
    IF p_stream = NoStream THEN p_stream
    ELSE [p_stream EXCEPT !.m_buffering_is_blocked = p_do_block,
                          !.waiting = @ /\ p_do_block]

\* main_pipeline::stream::performs_buffering
performs_buffering(p_stream) ==
    p_stream.m_queue_elem /\ p_stream.m_is_live_status_known /\ ~p_stream.m_is_live

\* Returns the new stream object whether or not its constructor could create
\* the elements (s.env.stream_ok).
setup_stream_nolock(s, p_token, p_media, p_properties, p_queued) ==
    stream(p_token, p_media, p_properties, p_queued, s.env.stream_ok)

\* handle_postponed_task_nolock() called while m_postponed_task.m_type is
\* type_none: the switch has nothing to run. These are the calls nested in a
\* running handle_postponed_task_nolock(), which has cleared the type before
\* dispatching, and the call in set_pipeline_to_idle_nolock(), whose only
\* caller, shutdown_pipeline_nolock(), has cleared it as well.
handle_no_postponed_task_nolock(s) == [s EXCEPT !.m_postponed_task.m_type = "none"]

set_pipeline_to_idle_nolock(s, p_set_state) ==
    LET rest(s3) ==
            handle_no_postponed_task_nolock(
                set_initial_state_values_nolock(
                    IF p_set_state THEN set_state_nolock(s3, "idle") ELSE s3))
    IN rest([gst_element_set_state_null(
                 [s EXCEPT !.m_current_stream = block_buffering(@, FALSE),
                           !.m_next_stream = block_buffering(@, FALSE)])
             EXCEPT !.m_current_stream = NoStream, !.m_next_stream = NoStream])

shutdown_pipeline_nolock(s, p_set_state) ==
    IF ~s.m_pipeline_elem THEN s
    ELSE [set_pipeline_to_idle_nolock(
              [s EXCEPT !.m_timeout_source = FALSE, !.m_postponed_task = NoTask],
              p_set_state)
          EXCEPT !.bus = <<>>, !.m_pipeline_elem = FALSE, !.last.destroyed = FALSE]

\* s.ok is the bool the function returns.
initialize_pipeline_nolock(s) ==
    LET rest(s1) ==
            IF ~s1.env.init_ok
            THEN [s1 EXCEPT !.m_pipeline_elem = FALSE, !.ok = FALSE,
                            !.last.failed = TRUE]
            ELSE [set_state_nolock(s1, "idle") EXCEPT !.m_pipeline_elem = TRUE,
                                                       !.bus = <<>>, !.ok = TRUE]
    IN rest(IF s.m_pipeline_elem THEN shutdown_pipeline_nolock(s, TRUE) ELSE s)

reinitialize_pipeline_nolock(s) ==
    initialize_pipeline_nolock(shutdown_pipeline_nolock(s, FALSE))

\* finish_seeking_nolock that returns as soon as gst_element_seek has failed
finish_seeking_leaving_on_failure(s, p_set_state_after_seeking) ==
    IF ~s.env.seek_ok
    THEN [s EXCEPT !.m_seeking_data.m_seek_to_position = "NONE",
                   !.last.seek_failed = TRUE]
    ELSE
        LET s1 == [s EXCEPT !.m_seeking_data.m_seek_to_position = "NONE",
                            !.last.seek_failed = ~s.env.seek_ok]
        IN IF ~p_set_state_after_seeking THEN s1
           ELSE IF s1.m_seeking_data.m_was_paused
           THEN [set_state_nolock(s1, "paused") EXCEPT !.handle_task = TRUE]
           ELSE IF s1.m_current_stream # NoStream /\ performs_buffering(s1.m_current_stream)
           THEN set_state_nolock([s1 EXCEPT !.m_current_stream.m_is_buffering = TRUE],
                                 "buffering")
           ELSE set_gstreamer_state_nolock(s1, "PLAYING")

\* The call of handle_postponed_task_nolock() is the last statement on its
\* path through finish_seeking_nolock() and through its caller
\* set_current_position_nolock(): it is marked with s.handle_task and made
\* by handle_task_after_seeking as soon as these have returned.
finish_seeking_nolock(s, p_set_state_after_seeking) ==
    LET s1 == [s EXCEPT !.m_seeking_data.m_seek_to_position = "NONE",
                        !.last.seek_failed = ~s.env.seek_ok]
    IN IF ~p_set_state_after_seeking THEN s1
       ELSE IF s1.m_seeking_data.m_was_paused
       THEN [set_state_nolock(s1, "paused") EXCEPT !.handle_task = TRUE]
       ELSE IF s1.m_current_stream # NoStream /\ performs_buffering(s1.m_current_stream)
       THEN set_state_nolock([s1 EXCEPT !.m_current_stream.m_is_buffering = TRUE],
                             "buffering")
       ELSE set_gstreamer_state_nolock(s1, "PLAYING")

Ret(s, p_ret) == [s EXCEPT !.last.ret = p_ret]

\* targets_current_stream without the test for the idle state
targets_current_without_idle(s, p_token, p_play_now) ==
    \/ p_play_now
    \/ (s.m_current_stream # NoStream /\ s.m_current_stream.m_token = p_token)

\* targets_current_stream without the test of p_play_now
targets_current_without_play_now(s, p_token, p_play_now) ==
    \/ s.m_state = "idle"
    \/ (s.m_current_stream # NoStream /\ s.m_current_stream.m_token = p_token)

\* targets_current_stream without the comparison of the tokens
targets_current_without_token(s, p_token, p_play_now) ==
    \/ s.m_state = "idle"
    \/ p_play_now

\* play_media_nolock, the condition that selects the current stream
targets_current_stream(s, p_token, p_play_now) ==
    \/ s.m_state = "idle"
    \/ p_play_now
    \/ (s.m_current_stream # NoStream /\ s.m_current_stream.m_token = p_token)

\* play_media_as_current that only reports the rejected state change
play_media_as_current_not_reinitializing(s, p_token, p_media, p_properties) ==
    IF ~is_valid(p_media) THEN Ret(s, FALSE)
    ELSE IF is_transitioning_nolock(s)
    THEN Ret([s EXCEPT !.m_postponed_task = PlayTask(p_token, p_media, p_properties)],
             TRUE)
    ELSE LET rest(s1) ==
         IF ~s1.ok THEN Ret(s1, FALSE)
         ELSE LET s3 == [set_state_nolock([s1 EXCEPT !.m_next_stream = NoStream],
                                          "starting")
                         EXCEPT !.m_current_stream =
                            setup_stream_nolock(s1, p_token, p_media, p_properties, FALSE),
                                !.last.stream_failed = ~s1.env.stream_ok]
              IN IF state_change_fails(s3, "PAUSED")
                 THEN Ret([s3 EXCEPT !.last.nreq = @ + 1, !.last.failed = TRUE], FALSE)
                 ELSE Ret(set_gstreamer_state_nolock(s3, "PAUSED"), TRUE)
         IN rest(reinitialize_pipeline_nolock(s))

\* play_media_nolock, the branch that sets the current stream
play_media_as_current(s, p_token, p_media, p_properties) ==
    IF ~is_valid(p_media) THEN Ret(s, FALSE)
    ELSE IF is_transitioning_nolock(s)
    THEN Ret([s EXCEPT !.m_postponed_task = PlayTask(p_token, p_media, p_properties)],
             TRUE)
    ELSE LET rest(s1) ==
         IF ~s1.ok THEN Ret(s1, FALSE)
         ELSE LET s3 == [set_state_nolock([s1 EXCEPT !.m_next_stream = NoStream],
                                          "starting")
                         EXCEPT !.m_current_stream =
                            setup_stream_nolock(s1, p_token, p_media, p_properties, FALSE),
                                !.last.stream_failed = ~s1.env.stream_ok]
              IN IF state_change_fails(s3, "PAUSED")
                 THEN Ret(reinitialize_pipeline_nolock(
                              [s3 EXCEPT !.last.nreq = @ + 1, !.last.failed = TRUE]),
                          FALSE)
                 ELSE Ret(set_gstreamer_state_nolock(s3, "PAUSED"), TRUE)
         IN rest(reinitialize_pipeline_nolock(s))

\* play_media_as_next that keeps a next stream that is already set
play_media_as_next_keeping(s, p_token, p_media, p_properties) ==
    IF ~is_valid(p_media) THEN Ret(s, FALSE)
    ELSE IF s.m_next_stream # NoStream THEN Ret(s, TRUE)
    ELSE Ret([s EXCEPT !.m_next_stream =
                  setup_stream_nolock(s, p_token, p_media, p_properties, TRUE),
                         !.last.stream_failed = ~s.env.stream_ok], TRUE)

\* play_media_nolock, the branch that sets the next stream
play_media_as_next(s, p_token, p_media, p_properties) ==
    LET s1 == [stream_destroyed(s, s.m_next_stream) EXCEPT !.m_next_stream = NoStream] IN
    IF is_valid(p_media)
    THEN Ret([s1 EXCEPT !.m_next_stream =
                  setup_stream_nolock(s1, p_token, p_media, p_properties, TRUE),
                         !.last.stream_failed = ~s1.env.stream_ok], TRUE)
    ELSE Ret(s1, FALSE)

play_media_nolock(s, p_token, p_media, p_play_now, p_properties) ==
    IF targets_current_stream(s, p_token, p_play_now)
    THEN play_media_as_current(s, p_token, p_media, p_properties)
    ELSE play_media_as_next(s, p_token, p_media, p_properties)

\* set_paused_nolock that does not look at the live status
set_paused_ignoring_live_status(s, p_paused) ==
    IF \/ ~s.m_pipeline_elem
       \/ s.m_state = "idle"
       \/ (p_paused /\ s.m_current_gstreamer_state = "PAUSED")
       \/ (~p_paused /\ s.m_pending_gstreamer_state = "PLAYING")
       \/ s.m_current_stream = NoStream
    THEN s
    ELSE IF is_transitioning_nolock(s)
    THEN [s EXCEPT !.m_postponed_task = PauseTask(p_paused)]
    ELSE set_gstreamer_state_nolock(s, IF p_paused THEN "PAUSED" ELSE "PLAYING")

set_paused_nolock(s, p_paused) ==
    IF \/ ~s.m_pipeline_elem
       \/ s.m_state = "idle"
       \/ (p_paused /\ s.m_current_gstreamer_state = "PAUSED")
       \/ (~p_paused /\ s.m_pending_gstreamer_state = "PLAYING")
       \/ s.m_current_stream = NoStream
    THEN s
    ELSE IF s.m_current_stream.m_is_live THEN s
    ELSE IF ~s.m_current_stream.m_is_live_status_known THEN s
    ELSE IF is_transitioning_nolock(s)
    THEN [s EXCEPT !.m_postponed_task = PauseTask(p_paused)]
    ELSE set_gstreamer_state_nolock(s, IF p_paused THEN "PAUSED" ELSE "PLAYING")

set_current_position_nolock(s) ==
    IF ~s.m_pipeline_elem \/ s.m_state = "idle" \/ s.m_current_stream = NoStream
    THEN s
    ELSE IF ~s.m_current_stream.m_is_seekable THEN s
    ELSE IF is_transitioning_nolock(s)
    THEN [s EXCEPT !.m_postponed_task = SetPositionTask]
    ELSE IF s.m_state # "paused" /\ s.m_state # "playing" THEN s
    ELSE LET s1 == [s EXCEPT !.m_seeking_data =
                        [m_was_paused |-> (s.m_state = "paused"),
                         m_seek_to_position |-> "SET"]]
             s2 == set_state_nolock(s1, "seeking")
         IN IF s2.m_seeking_data.m_was_paused
            THEN finish_seeking_nolock(s2, TRUE)
            ELSE set_gstreamer_state_nolock(s2, "PAUSED")

stop_nolock(s) ==
    IF ~s.m_pipeline_elem \/ s.m_state = "stopping" \/ s.m_state = "idle"
    THEN s
    ELSE IF is_transitioning_nolock(s)
    THEN [s EXCEPT !.m_postponed_task = StopTask]
    ELSE shutdown_pipeline_nolock(s, TRUE)

\* In the set_position case the call of handle_postponed_task_nolock()
\* that ends finish_seeking_nolock() finds m_type already type_none.
handle_postponed_task_nolock(s) ==
    LET task == s.m_postponed_task
        s1 == [s EXCEPT !.m_postponed_task = NoTask, !.last.ran = task.m_type]
        nested(r) == IF r.handle_task
                     THEN handle_no_postponed_task_nolock(
                              [r EXCEPT !.handle_task = FALSE])
                     ELSE r
    IN CASE task.m_type = "play" ->
                play_media_nolock(s1, task.m_token, task.m_media, TRUE,
                                  task.m_playback_properties)
         [] task.m_type = "stop" -> stop_nolock(s1)
         [] task.m_type = "pause" -> set_paused_nolock(s1, task.m_paused)
         [] task.m_type = "set_position" ->
                nested(set_current_position_nolock(s1))
         [] task.m_type = "set_state" ->
                gst_element_set_state(s1, task.m_gstreamer_state)
         [] OTHER -> s1

\* The call of handle_postponed_task_nolock() that finish_seeking_nolock()
\* has marked.
handle_task_after_seeking(s) ==
    IF s.handle_task
    THEN handle_postponed_task_nolock([s EXCEPT !.handle_task = FALSE])
    ELSE s

\* A bus watch or timer that does not bring the slots up to date first.
make_next_stream_current_skipped(s) == s

make_next_stream_current_nolock(s) ==
    IF ~s.m_stream_eos_seen THEN s
    ELSE [stream_destroyed(s, s.m_current_stream)
          EXCEPT !.m_current_stream = s.m_next_stream,
                   !.m_next_stream = NoStream,
                   !.m_stream_eos_seen = FALSE,
                   !.last.promoted = s.m_next_stream.m_media]

\* A recheck_buffering_state_nolock that pauses for buffering in any state.
recheck_buffering_state_in_any_state(s) ==
    LET cur == s.m_current_stream IN
    IF cur.m_is_buffering /\ ~cur.m_is_live /\ cur.m_is_live_status_known
    THEN set_gstreamer_state_nolock(set_state_nolock(s, "buffering"), "PAUSED")
    ELSE IF ~cur.m_is_buffering /\ s.m_state = "buffering"
    THEN set_gstreamer_state_nolock(s, "PLAYING")
    ELSE s

\* A recheck_buffering_state_nolock that does not resume playback.
recheck_buffering_state_not_resuming(s) ==
    LET cur == s.m_current_stream IN
    IF cur.m_is_buffering /\ ~cur.m_is_live /\ cur.m_is_live_status_known
       /\ s.m_state = "playing"
    THEN set_gstreamer_state_nolock(set_state_nolock(s, "buffering"), "PAUSED")
    ELSE s

recheck_buffering_state_nolock(s) ==
    LET cur == s.m_current_stream IN
    IF cur.m_is_buffering /\ ~cur.m_is_live /\ cur.m_is_live_status_known
       /\ s.m_state = "playing"
    THEN set_gstreamer_state_nolock(set_state_nolock(s, "buffering"), "PAUSED")
    ELSE IF ~cur.m_is_buffering /\ s.m_state = "buffering"
    THEN set_gstreamer_state_nolock(s, "PLAYING")
    ELSE s

\* main_pipeline::stream::recheck_live_status; p_query is the answer of the
\* latency query: "fail", "live" or "nonlive".
recheck_live_status(p_stream, p_query) ==
    IF p_query = "fail"
    THEN [p_stream EXCEPT !.m_is_live_status_known = FALSE]
    ELSE [p_stream EXCEPT !.m_is_live = (p_query = "live"),
                          !.m_is_live_status_known = TRUE]

\* ---------------------------------------- static_bus_watch, per message

\* GST_MESSAGE_STATE_CHANGED of the pipeline element, case state_starting,
\* GST_STATE_PAUSED
starting_reaches_paused(s0) ==
    LET s == update_durations_nolock(s0) IN
    IF s.m_current_stream = NoStream THEN s
    ELSE LET pprops == s.m_current_stream.m_playback_properties IN
         LET rest(s1) ==
                 IF pprops.m_start_paused
                 THEN set_state_nolock(s1, "paused")
                 ELSE IF ~s1.m_current_stream.m_is_live
                         /\ s1.m_current_stream.m_is_buffering
                 THEN set_state_nolock(s1, "buffering")
                 ELSE set_gstreamer_state_nolock(set_state_nolock(s1, "paused"),
                                                 "PLAYING")
         IN rest(IF pprops.m_start_at_position > 0 /\ s.m_current_stream.m_is_seekable
                 THEN finish_seeking_nolock(
                          set_state_nolock(
                              [s EXCEPT !.m_seeking_data =
                                   [m_was_paused |-> pprops.m_start_paused,
                                    m_seek_to_position |-> "SET"]],
                              "seeking"),
                          FALSE)
                 ELSE s)

EnableTimeouts(s) == [s EXCEPT !.enable_timeouts = TRUE]

\* GST_MESSAGE_STATE_CHANGED of the pipeline element
\* A bus watch that does nothing when PAUSED is reached in state_buffering.
buffering_reaches_paused_waiting(s) == s

\* static_bus_watch, GST_MESSAGE_STATE_CHANGED in state_buffering, new state
\* PAUSED: buffering finished before the switch to PAUSED did.
buffering_reaches_paused(s) ==
    IF s.m_current_stream # NoStream /\ ~s.m_current_stream.m_is_buffering
    THEN set_gstreamer_state_nolock(s, "PLAYING")
    ELSE s

handle_state_changed(s0, p_msg) ==
    LET s == [s0 EXCEPT !.m_current_gstreamer_state = p_msg.new]
        new == p_msg.new
        rest(r) == [r EXCEPT !.m_timeout_source = r.enable_timeouts]
    IN rest(CASE s.m_state = "starting" /\ new = "PAUSED" -> starting_reaches_paused(s)
               [] s.m_state = "starting" /\ new = "PLAYING" ->
                      set_state_nolock(EnableTimeouts(s), "playing")
               [] s.m_state = "seeking" /\ new = "PAUSED" ->
                      IF p_msg.old # "PAUSED" /\ s.m_seeking_data.m_seek_to_position # "NONE"
                      THEN handle_task_after_seeking(finish_seeking_nolock(s, TRUE))
                      ELSE s
               [] s.m_state = "seeking" /\ new = "PLAYING" ->
                      handle_postponed_task_nolock(
                          set_state_nolock(EnableTimeouts(s), "playing"))
               [] s.m_state = "buffering" /\ new = "PAUSED" -> buffering_reaches_paused(s)
               [] s.m_state = "buffering" /\ new = "PLAYING" ->
                      handle_postponed_task_nolock(
                          set_state_nolock(EnableTimeouts(s), "playing"))
               [] s.m_state \in {"playing", "paused"} /\ new = "PAUSED" ->
                      IF s.m_state # "paused"
                      THEN handle_postponed_task_nolock(set_state_nolock(s, "paused"))
                      ELSE s
               [] s.m_state \in {"playing", "paused"} /\ new = "PLAYING" ->
                      IF s.m_state # "playing"
                      THEN handle_postponed_task_nolock(
                               set_state_nolock(EnableTimeouts(s), "playing"))
                      ELSE s
               [] OTHER -> s)

\* GST_MESSAGE_STREAM_START
handle_stream_start(s) ==
    IF s.m_current_stream # NoStream
    THEN LET cur == s.m_current_stream
             c1 == IF ~cur.m_is_live_status_known
                   THEN recheck_live_status(
                            cur, latency_query(cur.m_media, s.env.latency_ok))
                   ELSE cur
             c2 == block_buffering(c1, FALSE)
         IN recheck_buffering_state_nolock(
                [update_durations_nolock(s) EXCEPT
                          !.m_aggregated_tag_list = NoTags,
                          !.m_postponed_tags_list = NoTags,
                          !.last.callback = "media_started",
                          !.m_current_stream = c2])
    ELSE reinitialize_pipeline_nolock([s EXCEPT !.m_aggregated_tag_list = NoTags,
                                                !.m_postponed_tags_list = NoTags])

\* GST_MESSAGE_TAG carrying the tag list p_list
handle_tag(s, p_list) ==
    LET new_tags == calculate_new_tags(s.m_aggregated_tag_list, p_list)
        s1 == [s EXCEPT !.m_aggregated_tag_list = insert(@, new_tags)]
        loop == postpone_tags(new_tags, s1.m_postponed_tags_list,
                              s1.m_tags_to_always_postpone)
    IN IF is_empty(new_tags) THEN s
       ELSE IF s1.m_postpone_all_tags
       THEN [s1 EXCEPT !.m_postponed_tags_list = insert(@, new_tags)]
       ELSE IF loop.tags_left
       THEN [s1 EXCEPT !.m_postponed_tags_list = loop.postponed,
                       !.last.by = "tag_handler",
                       !.last.new_tags = loop.new_tags]
       ELSE [s1 EXCEPT !.m_postponed_tags_list = loop.postponed]

\* static_timeout_cb: the postponed tags are passed to the new_tags callback
\* and the list is reset.
report_postponed_tags(s) ==
    IF s.m_current_stream # NoStream /\ ~is_empty(s.m_postponed_tags_list)
    THEN [s EXCEPT !.last.by = "timer",
                   !.last.new_tags = s.m_postponed_tags_list,
                   !.m_postponed_tags_list = NoTags]
    ELSE [s EXCEPT !.m_postponed_tags_list = NoTags]

\* GST_MESSAGE_EOS
handle_eos(s) ==
    IF s.m_next_stream # NoStream /\ is_valid(s.m_next_stream.m_media)
    THEN play_media_nolock(s, s.m_next_stream.m_token, s.m_next_stream.m_media, TRUE,
                           s.m_next_stream.m_playback_properties)
    ELSE [stop_nolock(s) EXCEPT !.last.callback = "end_of_stream"]

\* GST_MESSAGE_ERROR
handle_error(s) ==
    reinitialize_pipeline_nolock([s EXCEPT !.last.callback = "error"])

\* GST_MESSAGE_BUFFERING posted by the stream p_source (a stream value);
\* p_low: percent < 100.
handle_buffering(s, p_source, p_low) ==
    LET is_current == s.m_current_stream # NoStream /\ s.m_current_stream = p_source
        is_next == ~is_current /\ s.m_next_stream # NoStream /\ s.m_next_stream = p_source
        stream_ == IF is_current THEN s.m_current_stream ELSE s.m_next_stream
        set_flag == IF p_low THEN ~stream_.m_is_buffering ELSE stream_.m_is_buffering
        changed == \/ set_flag
                   \/ /\ p_low /\ stream_.m_is_buffering /\ is_current
                      /\ s.m_state # "buffering" /\ s.m_state # "starting"
        flag == IF set_flag THEN p_low ELSE stream_.m_is_buffering
    IN IF ~is_current /\ ~is_next THEN s
       ELSE IF is_next THEN [s EXCEPT !.m_next_stream.m_is_buffering = flag]
       ELSE LET s1 == [s EXCEPT !.m_current_stream.m_is_buffering = flag] IN
            IF ~changed THEN s1
            ELSE recheck_buffering_state_nolock(
                     [s1 EXCEPT !.m_next_stream = block_buffering(@, flag)])

\* ------------------------------------------------------------- actions

\* What the environment answers during one operation: whether the output
\* graph can be built, and whether the engine accepts the state request of
\* play_media.
EnvOk == [init_ok |-> TRUE, state_ok |-> TRUE, seek_ok |-> TRUE, stream_ok |-> TRUE,
          latency_ok |-> TRUE]
InitEnv == [init_ok : BOOLEAN, state_ok : {TRUE}, seek_ok : {TRUE}, stream_ok : {TRUE},
            latency_ok : {TRUE}]
\* In a play_media call the elements of the new stream may fail to be
\* created as well.
Env == InitEnv \cup {[EnvOk EXCEPT !.state_ok = FALSE],
                     [EnvOk EXCEPT !.stream_ok = FALSE]}
\* gst_element_seek in finish_seeking_nolock may fail as well.
SeekEnv == InitEnv \cup {[EnvOk EXCEPT !.seek_ok = FALSE]}
StreamStartEnv == InitEnv \cup {[EnvOk EXCEPT !.latency_ok = FALSE]}

\* The API functions the application calls.
ApiOps == {"play_media", "stop", "set_paused", "set_current_position"}

\* The API functions and the handlers of the event loop lock m_loop_mutex
\* first.
LoopMutexFree == m_loop_mutex = "unlocked"

\* The state at the start of operation p_op, with the operation's locals.
Begin(p_op, p_env) ==
    [S EXCEPT !.last = [NoLast EXCEPT !.op = p_op]]
        @@ [env |-> p_env, ok |-> TRUE, enable_timeouts |-> FALSE,
            handle_task |-> FALSE, stuck |-> FALSE]

\* The state at the start of an API function, which locks the loop mutex
\* and reads the slots as they are: stale if the EOS probe has raised
\* m_stream_eos_seen and no handler has reconciled it yet.
BeginApi(p_op, p_env) ==
    LET s == Begin(p_op, p_env)
    IN [s EXCEPT !.calls = @ + 1,
                 !.last.from = s.m_state,
                 !.last.stale = s.m_stream_eos_seen /\ s.m_next_stream # NoStream]

\* Ghost: the scenario play_media(1, A, true); play_media(2, B, false);
\* play_media(2, C, false), every call made before A ends. scen counts the
\* calls of the scenario made so far, and is 4 right after the operation
\* that reconciled the end of A once the three calls were made; any other
\* play_media or stop call, the end of A and a reinitialization end it.
ScenarioAfterPlay(s, r) ==
    CASE r.last.token = 1 /\ r.last.media = "A" /\ r.last.play_now /\ s.m_state = "idle"
         /\ r.m_state = "starting" -> 1
      [] r.last.token = 2 /\ r.last.media = "B" /\ ~r.last.play_now /\ s.scen = 1
         /\ ~s.m_stream_eos_seen -> 2
      [] r.last.token = 2 /\ r.last.media = "C" /\ ~r.last.play_now /\ s.scen = 2
         /\ ~s.m_stream_eos_seen -> 3
      [] OTHER -> 0

ScenarioAfterEvent(s, r) ==
    CASE s.scen = 3 /\ r.last.promoted # "-" -> 4
      [] /\ s.scen \in 1..3
         /\ r.m_current_stream.m_token = 1 /\ r.m_current_stream.m_media = "A"
         /\ r.m_state # "idle" /\ r.last.promoted = "-" -> s.scen
      [] OTHER -> 0

Scenario(s, r) ==
    CASE r.last.op = "play_media" -> ScenarioAfterPlay(s, r)
      [] r.last.op = "stop" -> 0
      [] OTHER -> ScenarioAfterEvent(s, r)

\* Ghost: superseded_by of the postponed task after the operation that led
\* from s to r.
SupersededBy(s, r) ==
    CASE r.m_postponed_task.m_type = "none" -> ""
      [] r.m_state # s.m_state -> ""
      [] /\ r.last.op = "play_media" /\ r.last.ret
         /\ s.m_state \in TransitionalStates
         /\ s.m_postponed_task.recorded_in = s.m_state
         /\ ~targets_current_stream(s, r.last.token, r.last.play_now) -> r.last.media
      [] OTHER -> r.m_postponed_task.superseded_by

\* Ghost: the state in which the postponed task after the operation that
\* led from s to r was recorded (a task that was just recorded has "-").
RecordedIn(s, r) ==
    CASE r.m_postponed_task.m_type = "none" -> "-"
      [] r.m_postponed_task.recorded_in = "-" -> s.m_state
      [] OTHER -> r.m_postponed_task.recorded_in

\* Ghost: pause_wanted after the operation that led from s to r, in a run
\* that follows it. A set_paused(true) call in the state playing with a
\* current stream that is known not to be live (the call that
\* set_paused_nolock neither ignores nor postpones) is waiting until the
\* controller is paused; a later play_media, stop or set_paused(false) call,
\* the end of the stream and an error message withdraw it.
PauseWanted(s, r) ==
    CASE s.pause_wanted = "-" -> "-"
      [] r.last.op \in {"play_media", "stop"} -> "no"
      [] r.last.op = "set_paused" /\ ~r.last.paused -> "no"
      [] r.m_stream_eos_seen \/ r.last.msg \in {"eos", "error"} -> "no"
      [] r.m_state = "paused" -> "no"
      [] /\ r.last.op = "set_paused" /\ r.last.paused
         /\ s.m_state = "playing" /\ s.m_pipeline_elem
         /\ s.m_current_gstreamer_state # "PAUSED"
         /\ s.m_current_stream # NoStream
         /\ s.m_current_stream.m_is_live_status_known
         /\ ~s.m_current_stream.m_is_live -> "yes"
      [] OTHER -> s.pause_wanted

\* The end of the operation that led from s to r: the ghosts are brought up
\* to date and the state is written back. An operation that got stuck in a
\* destructor never returns and never unlocks m_loop_mutex: what it did
\* under the mutex is seen by nobody.
Finish(s, r) ==
    IF r.stuck
    THEN Commit([s EXCEPT !.m_loop_mutex = IF s.last.op \in ApiOps THEN "caller"
                                           ELSE "event_loop",
                          !.last = [NoLast EXCEPT !.op = "blocked"]])
    ELSE Commit([r EXCEPT !.scen = Scenario(s, r),
                          !.pause_wanted = PauseWanted(s, r),
                          !.m_postponed_task.superseded_by = SupersededBy(s, r),
                          !.m_postponed_task.recorded_in = RecordedIn(s, r)])

\* The play_media call builds a pipeline and asks it to change state: only
\* then the answers of the environment make a difference.
ConsultsEngine(p_token, p_media, p_play_now) ==
    /\ is_valid(p_media)
    /\ targets_current_stream(S, p_token, p_play_now)
    /\ ~is_transitioning_nolock(S)

\* The play_media call constructs a stream.
CreatesStream(p_token, p_media, p_play_now) ==
    /\ is_valid(p_media)
    /\ targets_current_stream(S, p_token, p_play_now) => ~is_transitioning_nolock(S)

\* bool play_media(token, media, play_now, properties)
PlayMedia(p_token, p_media, p_play_now, p_properties, p_env) ==
    /\ calls < MaxCalls
    /\ LoopMutexFree
    /\ CASE p_env = EnvOk -> TRUE
         [] ~p_env.stream_ok -> CreatesStream(p_token, p_media, p_play_now)
         [] OTHER -> ConsultsEngine(p_token, p_media, p_play_now)
    /\ LET s == [BeginApi("play_media", p_env) EXCEPT
                    !.last.token = p_token, !.last.media = p_media,
                    !.last.play_now = p_play_now, !.last.properties = p_properties,
                    !.last.same_token = (m_current_stream # NoStream
                                         /\ m_current_stream.m_token = p_token),
                    !.last.on_promoted = m_current_stream.queued]
       IN Finish(s, play_media_nolock(s, p_token, p_media, p_play_now, p_properties))

\* void stop()
Stop ==
    /\ calls < MaxCalls
    /\ LoopMutexFree
    /\ LET s == BeginApi("stop", EnvOk)
       IN Finish(s, Ret(stop_nolock(s), TRUE))

\* void set_paused(bool)
SetPaused(p_paused) ==
    /\ calls < MaxCalls
    /\ LoopMutexFree
    /\ LET s == [BeginApi("set_paused", EnvOk) EXCEPT !.last.paused = p_paused]
       IN Finish(s, Ret(set_paused_nolock(s, p_paused), TRUE))

\* void set_current_position(position, unit)
SetCurrentPosition ==
    /\ calls < MaxCalls
    /\ LoopMutexFree
    /\ \E e \in SeekEnv :
          LET s == BeginApi("set_current_position", e)
          IN Finish(s, Ret(handle_task_after_seeking(set_current_position_nolock(s)),
                           TRUE))

\* One invocation of static_bus_watch or static_timeout_cb that started in
\* p_s: p_r is the state its handler leaves, having run after
\* make_next_stream_current_nolock.
EventLoop(p_s, p_r) == Finish(p_s, Ret(p_r, TRUE))

\* p_type is the type of the oldest message on the bus.
NextMessageIs(p_type) ==
    LoopMutexFree /\ m_pipeline_elem /\ bus # <<>> /\ Head(bus).type = p_type

\* The state at the start of the bus watch invocation that takes the oldest
\* message off the bus.
BeginBusWatch(p_env) ==
    [Begin("bus_watch", p_env) EXCEPT !.bus = Tail(bus), !.last.msg = Head(bus).type]

\* static_bus_watch, GST_MESSAGE_STATE_CHANGED
BusStateChanged(p_env) ==
    /\ NextMessageIs("state_changed")
    /\ LET s == BeginBusWatch(p_env)
       IN EventLoop(s, handle_state_changed(make_next_stream_current_nolock(s),
                                            Head(bus)))

\* static_bus_watch, GST_MESSAGE_APPLICATION posted by the EOS probe: it only
\* wakes the bus watch up.
BusApplication ==
    /\ LoopMutexFree
    /\ m_pipeline_elem
    /\ m_stream_eos_seen
    /\ LET s == Begin("bus_watch", EnvOk)
       IN EventLoop(s, make_next_stream_current_nolock(s))

\* static_bus_watch, GST_MESSAGE_STREAM_START
BusStreamStart(p_env) ==
    /\ NextMessageIs("stream_start")
    /\ LET s == BeginBusWatch(p_env)
       IN EventLoop(s, handle_stream_start(make_next_stream_current_nolock(s)))

\* static_bus_watch, GST_MESSAGE_DURATION_CHANGED of an element other than
\* concat, handled as soon as it is posted
BusDurationChanged ==
    /\ LoopMutexFree
    /\ m_pipeline_elem
    /\ gst_state # "NULL"
    /\ bus = <<>>
    /\ LET s == [Begin("bus_watch", EnvOk) EXCEPT !.last.msg = "duration_changed"]
       IN EventLoop(s, update_durations_nolock(make_next_stream_current_nolock(s)))

\* static_bus_watch, GST_MESSAGE_REQUEST_STATE: the handler writes two
\* fields of m_postponed_task and leaves the others as they are.
handle_request_state(s, p_requested_state) ==
    IF is_transitioning_nolock(s)
    THEN [s EXCEPT !.m_postponed_task.m_type = "set_state",
                   !.m_postponed_task.m_gstreamer_state = p_requested_state]
    ELSE gst_element_set_state(s, p_requested_state)

\* The states an element of the pipeline asks for.
RequestedStates == {"PAUSED", "PLAYING"}

\* An element posts GST_MESSAGE_REQUEST_STATE, which the bus watch handles
\* as soon as it is posted.
BusRequestState(p_requested_state) ==
    /\ LoopMutexFree
    /\ m_pipeline_elem
    /\ gst_state # "NULL"
    /\ bus = <<>>
    /\ LET s == [Begin("bus_watch", EnvOk) EXCEPT !.last.msg = "request_state"]
       IN EventLoop(s, handle_request_state(make_next_stream_current_nolock(s),
                                            p_requested_state))

\* static_bus_watch, GST_MESSAGE_EOS
BusEos(p_env) ==
    /\ NextMessageIs("eos")
    /\ LET s == BeginBusWatch(p_env)
       IN EventLoop(s, handle_eos(make_next_stream_current_nolock(s)))

\* static_bus_watch, GST_MESSAGE_ERROR
BusError(p_env) ==
    /\ NextMessageIs("error")
    /\ LET s == BeginBusWatch(p_env)
       IN EventLoop(s, handle_error(make_next_stream_current_nolock(s)))

\* static_bus_watch, GST_MESSAGE_BUFFERING from the stream that is in slot
\* p_slot when the message is handled
BusBuffering(p_slot, p_low) ==
    /\ LoopMutexFree
    /\ m_pipeline_elem
    /\ gst_state # "NULL"
    /\ LET source == IF p_slot = "current" THEN m_current_stream ELSE m_next_stream
           s == [Begin("bus_watch", EnvOk) EXCEPT
                    !.last.flag_kept = /\ p_slot = "current"
                                       /\ source.m_is_buffering = p_low]
       IN /\ source # NoStream
          /\ source.linked
          /\ EventLoop(s, handle_buffering(make_next_stream_current_nolock(s),
                                           source, p_low))

\* static_timeout_cb
TimeoutCb ==
    /\ LoopMutexFree
    /\ m_timeout_source
    /\ LET s == Begin("timeout_cb", EnvOk)
       IN EventLoop(s, report_postponed_tags(make_next_stream_current_nolock(s)))

\* static_bus_watch, GST_MESSAGE_TAG: a tag message, which the sink posts
\* for the tags that reach it from the current stream once data flows (after
\* its STREAM_START message), taken off the bus as soon as it was posted, or,
\* posted just before the stream ended, ahead of the message that followed
\* the EOS probe.
BusTag(p_list) ==
    /\ LoopMutexFree
    /\ m_pipeline_elem
    /\ gst_state \in {"PAUSED", "PLAYING"}
    /\ bus = <<>> \/ m_stream_eos_seen
    /\ m_current_stream # NoStream
    /\ m_current_stream.linked
    /\ LET s == Begin("bus_watch", EnvOk)
       IN EventLoop(s, handle_tag(make_next_stream_current_nolock(s), p_list))

\* void force_postpone_tag(tag, postpone)
ForcePostponeTag(p_tag, p_postpone) ==
    /\ LoopMutexFree
    /\ (p_tag \in m_tags_to_always_postpone) # p_postpone
    /\ LET s == Begin("force_postpone_tag", EnvOk)
       IN Finish(s, [s EXCEPT !.m_tags_to_always_postpone =
                                 IF p_postpone THEN @ \cup {p_tag} ELSE @ \ {p_tag}])

\* static_stream_eos_probe on a streaming thread: EOS passes the srcpad of
\* the stream that concat is playing. It raises the flag and posts the
\* application message; concat goes on with the next stream, which posts
\* STREAM_START, or, with none (or one without elements, which has no pad
\* at concat), lets EOS through to the sink, which posts GST_MESSAGE_EOS.
EosProbe ==
    /\ m_pipeline_elem
    /\ gst_state \in {"PAUSED", "PLAYING"}
    /\ m_current_stream # NoStream
    /\ m_current_stream.linked
    /\ ~m_stream_eos_seen
    /\ Len(bus) < MaxBus
    /\ LET s == Begin("streaming_thread", EnvOk)
       IN Finish(s, [s EXCEPT !.m_stream_eos_seen = TRUE,
                              !.bus = Append(@, IF s.m_next_stream.m_uridecodebin_elem
                                                THEN StreamStartMsg ELSE EosMsg)])

\* stream::static_new_pad_callback (after static_element_added_callback) on a
\* streaming thread: the decoder of the stream in p_slot has produced its pad.
NewPad(p_slot, p_latency_ok) ==
    /\ m_pipeline_elem
    /\ gst_state # "NULL"
    /\ LET s == Begin("streaming_thread", EnvOk)
           old == IF p_slot = "current" THEN s.m_current_stream ELSE s.m_next_stream
           new == recheck_live_status(
                      [old EXCEPT !.linked = TRUE,
                                  !.m_is_seekable = seeking_query(old.m_media),
                                  !.m_queue_elem = has_queue(old.m_media)],
                      latency_query(old.m_media, p_latency_ok))
       IN /\ old # NoStream
          /\ old.m_uridecodebin_elem
          /\ ~old.linked
          /\ Finish(s, IF p_slot = "current"
                       THEN [s EXCEPT !.m_current_stream = new]
                       ELSE [s EXCEPT !.m_next_stream = new])

\* stream::static_buffering_block_probe on the streaming thread of the
\* stream in p_slot: a buffer arrives at the sink pad of the queue while
\* m_buffering_is_blocked is set, and the thread waits on m_block_condition.
\* The probe is installed by the new-pad callback if there is a queue.
BlockProbe(p_slot) ==
    /\ m_pipeline_elem
    /\ gst_state # "NULL"
    /\ LET s == Begin("streaming_thread", EnvOk)
           old == IF p_slot = "current" THEN s.m_current_stream ELSE s.m_next_stream
           new == [old EXCEPT !.waiting = TRUE]
       IN /\ old # NoStream
          /\ old.linked /\ old.m_queue_elem
          /\ old.m_buffering_is_blocked
          /\ ~old.waiting
          /\ Finish(s, IF p_slot = "current"
                       THEN [s EXCEPT !.m_current_stream = new]
                       ELSE [s EXCEPT !.m_next_stream = new])

\* An element posts an error on a streaming thread, and the bus calls
\* static_bus_sync_handler on that thread: an element may fail whenever the
\* pipeline has been asked to leave the NULL state, and a child of the
\* uridecodebin of a stream that is being destroyed (p_src_marked) while
\* the destructor shuts the elements down.
PostError(p_src_marked) ==
    /\ m_pipeline_elem
    /\ gst_target # "NULL"
    /\ p_src_marked => last.destroyed
    /\ Len(bus) < MaxBus
    /\ LET s == Begin("streaming_thread", EnvOk)
           msg == ErrorMsg(p_src_marked)
           reply == static_bus_sync_handler(msg)
       IN Finish(s, [s EXCEPT !.last.sync = reply, !.last.src_marked = p_src_marked,
                              !.bus = IF reply = "PASS" THEN Append(@, msg) ELSE @])

\* The engine carries out one step of the requested state change. Leaving
\* NULL, the streaming threads start (state READY here) and the first stream
\* posts STREAM_START; every later step posts its STATE_CHANGED message. The
\* STATE_CHANGED message of NULL to READY is left out: the bus watch does
\* nothing on it. A pipeline that was started with a current stream that
\* has no decoder gets no data: it posts nothing and never reaches PAUSED.
EngineStep ==
    /\ m_pipeline_elem
    /\ gst_state # gst_target
    /\ gst_state \in {"NULL", "READY"}
          => (m_current_stream = NoStream \/ m_current_stream.m_uridecodebin_elem)
    /\ Len(bus) < MaxBus
    /\ LET s == Begin("streaming_thread", EnvOk)
           new == CASE gst_state = "NULL" -> "READY"
                    [] gst_state = "READY" -> "PAUSED"
                    [] OTHER -> gst_target
       IN Finish(s, [s EXCEPT !.gst_state = new,
                              !.bus = Append(@, IF gst_state = "NULL" THEN StreamStartMsg
                                                ELSE StateChangedMsg(gst_state, new))])

\* main_pipeline::main_pipeline
main_pipeline(p_postpone_all_tags) ==
    /\ m_state = "idle"
    /\ m_current_stream = NoStream
    /\ m_next_stream = NoStream
    /\ m_postponed_task = NoTask
    /\ m_seeking_data = [m_was_paused |-> FALSE, m_seek_to_position |-> "NONE"]
    /\ m_current_gstreamer_state = "NULL"
    /\ m_pending_gstreamer_state = "VOID_PENDING"
    /\ m_pipeline_elem = FALSE
    /\ m_stream_eos_seen = FALSE
    /\ m_timeout_source = FALSE
    /\ m_aggregated_tag_list = NoTags
    /\ m_postponed_tags_list = NoTags
    /\ m_tags_to_always_postpone = {"minimum-bitrate", "maximum-bitrate", "bitrate"}
    /\ m_postpone_all_tags = p_postpone_all_tags
    /\ m_duration_in_nanoseconds = -1
    /\ m_duration_in_bytes = -1
    /\ m_loop_mutex = "unlocked"
    /\ gst_target = "NULL"
    /\ gst_state = "NULL"
    /\ bus = <<>>
    /\ calls = 0
    /\ probe = "out"
    /\ last = NoLast
    /\ scen = 0

\* The controller constructed with the default arguments.
Init == main_pipeline(FALSE) /\ call = NoCall /\ pause_wanted = "-"

Next ==
    \/ \E rq \in Requests, now \in BOOLEAN, pp \in playback_properties, e \in Env :
          PlayMedia(rq[1], rq[2], now, pp, e)
    \/ Stop
    \/ \E p \in BOOLEAN : SetPaused(p)
    \/ SetCurrentPosition
    \/ \E e \in SeekEnv : BusStateChanged(e)
    \/ BusApplication
    \/ \E e \in StreamStartEnv : BusStreamStart(e)
    \/ \E e \in InitEnv : BusEos(e)
    \/ \E e \in InitEnv : BusError(e)
    \/ \E sl \in {"current", "next"}, low \in BOOLEAN : BusBuffering(sl, low)
    \/ TimeoutCb
    \/ EosProbe
    \/ \E sl \in {"current", "next"}, ok \in BOOLEAN : NewPad(sl, ok)
    \/ \E sl \in {"current", "next"} : BlockProbe(sl)
    \/ \E m \in BOOLEAN : PostError(m)
    \/ EngineStep

Spec == Init /\ [][Next]_vars

\* The controller with an engine whose elements also report changes of the
\* duration: the application plays A, C behind or instead of it, and the
\* invalid media, with the default playback properties; every way into the
\* state idle is there (stop, the end of the last stream, an error, a
\* play_media call that fails).
IdleNext ==
    \/ \E rq \in {<<1, "A">>, <<2, "C">>, <<1, "">>}, now \in BOOLEAN, e \in Env :
          PlayMedia(rq[1], rq[2], now, DefaultProps, e)
    \/ Stop
    \/ \E p \in BOOLEAN : SetPaused(p)
    \/ SetCurrentPosition
    \/ \E e \in SeekEnv : BusStateChanged(e)
    \/ BusApplication
    \/ BusStreamStart(EnvOk)
    \/ \E e \in InitEnv : BusEos(e)
    \/ \E e \in InitEnv : BusError(e)
    \/ \E low \in BOOLEAN : BusBuffering("current", low)
    \/ BusDurationChanged
    \/ TimeoutCb
    \/ EosProbe
    \/ \E sl \in {"current", "next"} : NewPad(sl, TRUE)
    \/ PostError(FALSE)
    \/ EngineStep

IdleSpec == Init /\ [][IdleNext]_vars

\* calculate_new_tags returns.
CalculateNewTags ==
    /\ call.fn = "calculate_new_tags"
    /\ ~call.returned
    /\ Commit([S EXCEPT !.call.returned = TRUE,
                        !.call.result = calculate_new_tags(call.args[1], call.args[2])])

\* calculate_new_tags(p_reference, p_other) called with any two tag lists.
CalcInit ==
    /\ main_pipeline(FALSE)
    /\ pause_wanted = "-"
    /\ \E r \in TagLists, o \in TagLists : call = Call("calculate_new_tags", <<r, o>>)

CalcNext == CalculateNewTags

CalcSpec == CalcInit /\ [][CalcNext]_vars

\* update_buffer_limits returns.
UpdateBufferLimits ==
    /\ call.fn = "update_buffer_limits"
    /\ ~call.returned
    /\ Commit([S EXCEPT !.call.returned = TRUE,
                        !.call.result = update_buffer_limits(call.args[1], call.args[2],
                                                             call.args[3])])

\* update_buffer_limits called on a stream with any bitrate, estimation
\* duration and size limit.
LimitInit ==
    /\ main_pipeline(FALSE)
    /\ pause_wanted = "-"
    /\ \E b \in Bitrates, d \in EstimationDurations, l \in SizeLimits :
          call = Call("update_buffer_limits", <<b, d, l>>)

LimitNext == UpdateBufferLimits

LimitSpec == LimitInit /\ [][LimitNext]_vars

\* The tag handling: the application plays one media (C, which does not
\* buffer), the engine starts it, its stream posts tag messages and ends;
\* the application changes the set of tags to always postpone.
TagInit == (\E b \in BOOLEAN : main_pipeline(b)) /\ call = NoCall /\ pause_wanted = "-"

TagNext ==
    \/ calls = 0 /\ PlayMedia(1, "C", FALSE, DefaultProps, EnvOk)
    \/ EngineStep
    \/ BusStateChanged(EnvOk)
    \/ BusStreamStart(EnvOk)
    \/ NewPad("current", TRUE)
    \/ TimeoutCb
    \/ \E l \in TagMessages : BusTag(l)
    \/ \E b \in BOOLEAN : ForcePostponeTag("title", b)
    \/ EosProbe
    \/ BusEos(EnvOk)

TagSpec == TagInit /\ [][TagNext]_vars

\* main_pipeline::~main_pipeline: the destructor locks m_loop_mutex, which it
\* never gets if a caller or the event loop holds it forever; with the
\* mutex it shuts the pipeline down, releases the mutex, and stop_thread
\* quits the GLib main loop and joins its thread, which is idle.
Destructor ==
    /\ call = NoCall
    /\ IF LoopMutexFree
       THEN LET s == Begin("~main_pipeline", EnvOk)
            IN Finish(s, [shutdown_pipeline_nolock(s, TRUE) EXCEPT
                             !.call = [Call("~main_pipeline", <<>>) EXCEPT
                                          !.returned = TRUE]])
       ELSE Commit([S EXCEPT !.call = Call("~main_pipeline", <<>>)])

\* The controller has not been destroyed.
Alive == call = NoCall

\* The application plays the live media B and queues the network media A
\* behind it, pauses, seeks and stops, the engine and the streams do their
\* part without failing, and at any moment the application destroys the
\* controller, after which nothing is called on it.
DtorNext ==
    \/ Alive /\ \E rq \in {<<1, "A">>, <<2, "B">>}, now \in BOOLEAN :
                   PlayMedia(rq[1], rq[2], now, DefaultProps, EnvOk)
    \/ Alive /\ Stop
    \/ Alive /\ \E p \in BOOLEAN : SetPaused(p)
    \/ Alive /\ SetCurrentPosition
    \/ Alive /\ BusStateChanged(EnvOk)
    \/ Alive /\ BusStreamStart(EnvOk)
    \/ Alive /\ \E sl \in {"current", "next"}, low \in BOOLEAN : BusBuffering(sl, low)
    \/ Alive /\ TimeoutCb
    \/ Alive /\ \E sl \in {"current", "next"} : NewPad(sl, TRUE)
    \/ Alive /\ \E sl \in {"current", "next"} : BlockProbe(sl)
    \/ Alive /\ EngineStep
    \/ Destructor

DtorSpec == Init /\ [][DtorNext]_vars

\* The controller with an engine one of whose elements asks the application
\* to change the state of the pipeline: the application plays A and B, pauses,
\* seeks and stops, and the engine and the streams do their part without
\* failing.
RequestNext ==
    \/ \E rq \in {<<1, "A">>, <<2, "B">>}, now \in BOOLEAN :
          PlayMedia(rq[1], rq[2], now, DefaultProps, EnvOk)
    \/ Stop
    \/ \E p \in BOOLEAN : SetPaused(p)
    \/ SetCurrentPosition
    \/ BusStateChanged(EnvOk)
    \/ BusStreamStart(EnvOk)
    \/ \E sl \in {"current", "next"} : NewPad(sl, TRUE)
    \/ \E st \in RequestedStates : BusRequestState(st)
    \/ EngineStep

RequestSpec == Init /\ [][RequestNext]_vars

\* The live media B is playing and the network media A is queued behind it:
\* the decoders of both have produced their pads, so the queue of A has the
\* buffering-block probe on its sink pad, and no API call or handler is
\* running.
BlockInit ==
    /\ m_state = "playing"
    /\ m_current_stream =
           [stream(2, "B", DefaultProps, FALSE, TRUE) EXCEPT
               !.linked = TRUE, !.m_is_live = TRUE, !.m_is_live_status_known = TRUE]
    /\ m_next_stream =
           [stream(1, "A", DefaultProps, TRUE, TRUE) EXCEPT
               !.linked = TRUE, !.m_is_live_status_known = TRUE,
               !.m_is_seekable = TRUE, !.m_queue_elem = TRUE]
    /\ m_postponed_task = NoTask
    /\ m_seeking_data = [m_was_paused |-> FALSE, m_seek_to_position |-> "NONE"]
    /\ m_current_gstreamer_state = "PLAYING"
    /\ m_pending_gstreamer_state = "VOID_PENDING"
    /\ m_pipeline_elem = TRUE
    /\ m_stream_eos_seen = FALSE
    /\ m_timeout_source = TRUE
    /\ m_aggregated_tag_list = NoTags
    /\ m_postponed_tags_list = NoTags
    /\ m_tags_to_always_postpone = {"minimum-bitrate", "maximum-bitrate", "bitrate"}
    /\ m_postpone_all_tags = FALSE
    /\ m_duration_in_nanoseconds = -1
    /\ m_duration_in_bytes = -1
    /\ m_loop_mutex = "unlocked"
    /\ gst_target = "PLAYING"
    /\ gst_state = "PLAYING"
    /\ bus = <<>>
    /\ calls = 2
    /\ call = NoCall
    /\ probe = "out"
    /\ last = NoLast
    /\ pause_wanted = "-"
    /\ scen = 0

\* The number of block_buffering calls made on the next stream.
BlockCalls == IF call.fn = "block_buffering" THEN call.args[2] ELSE 0

\* stream::block_buffering(p_do_block) on the next stream, up to the end of
\* its first block: the statement 'std::unique_lock < std::mutex >
\* (m_block_mutex);' declares a local lock object of that name and locks
\* nothing, so the flag is written whatever the streaming thread is doing.
BlockBufferingSet(p_do_block) ==
    /\ call.fn = "none" \/ call.returned
    /\ BlockCalls < MaxBlockCalls
    /\ Commit([S EXCEPT !.m_next_stream.m_buffering_is_blocked = p_do_block,
                        !.call = Call("block_buffering", <<p_do_block, BlockCalls + 1>>)])

\* stream::block_buffering, m_block_condition.notify_all() and return: a
\* thread that waits on the condition wakes up, locks m_block_mutex again
\* and tests the flag again.
BlockBufferingNotify ==
    /\ call.fn = "block_buffering" /\ ~call.returned
    /\ Commit([S EXCEPT !.call.returned = TRUE,
                        !.m_next_stream.waiting = FALSE,
                        !.probe = IF probe = "waiting" THEN "locked" ELSE @])

\* static_buffering_block_probe: a buffer arrives at the sink pad of the
\* queue and the streaming thread locks m_block_mutex.
ProbeLock ==
    /\ probe = "out"
    /\ Commit([S EXCEPT !.probe = "locked"])

\* static_buffering_block_probe: while (self->m_buffering_is_blocked)
ProbeTest ==
    /\ probe = "locked"
    /\ Commit([S EXCEPT !.probe = IF m_next_stream.m_buffering_is_blocked
                                  THEN "blocked" ELSE "out"])

\* static_buffering_block_probe: self->m_block_condition.wait(lock)
ProbeWait ==
    /\ probe = "blocked"
    /\ Commit([S EXCEPT !.probe = "waiting", !.m_next_stream.waiting = TRUE])

BlockNext ==
    \/ \E b \in BOOLEAN : BlockBufferingSet(b)
    \/ BlockBufferingNotify
    \/ ProbeLock
    \/ ProbeTest
    \/ ProbeWait

BlockSpec == BlockInit /\ [][BlockNext]_vars

\* The bus watch takes the oldest message of the engine off the bus.
BusWatch ==
    \/ \E e \in SeekEnv : BusStateChanged(e)
    \/ \E e \in StreamStartEnv : BusStreamStart(e)
    \/ \E e \in InitEnv : BusEos(e)
    \/ \E e \in InitEnv : BusError(e)

\* ENABLED <<BusWatch>>_vars: every message of the engine has one of the
\* four types, and its handler takes it off the bus.
BusWatchEnabled == LoopMutexFree /\ m_pipeline_elem /\ bus # <<>>

\* ENABLED <<EngineStep>>_vars: the guard of EngineStep, whose step changes
\* gst_state.
EngineStepEnabled ==
    /\ m_pipeline_elem
    /\ gst_state # gst_target
    /\ gst_state \in {"NULL", "READY"}
          => (m_current_stream = NoStream \/ m_current_stream.m_uridecodebin_elem)
    /\ Len(bus) < MaxBus

\* The engine carries out the state changes it was asked for (its streaming
\* threads run), and the GLib main loop, which the application runs,
\* dispatches the messages on the bus: weak fairness of both,
\* WF_vars(EngineStep) and WF_vars(BusWatch), written out by the definition
\* of WF with EngineStepEnabled and BusWatchEnabled for ENABLED.
FairSpec ==
    /\ Init /\ [][Next]_vars
    /\ ([]<>(~EngineStepEnabled) \/ []<><<EngineStep>>_vars)
    /\ ([]<>(~BusWatchEnabled) \/ []<><<BusWatch>>_vars)

\* The application plays the network media A, pauses, resumes and seeks; the
\* engine, the stream and the seeks do not fail, the stream reports its
\* buffering, and A does not end.
PauseNext ==
    \/ PlayMedia(1, "A", TRUE, DefaultProps, EnvOk)
    \/ \E p \in BOOLEAN : SetPaused(p)
    \/ SetCurrentPosition
    \/ BusStateChanged(EnvOk)
    \/ BusStreamStart(EnvOk)
    \/ \E low \in BOOLEAN : BusBuffering("current", low)
    \/ NewPad("current", TRUE)
    \/ EngineStep

\* The controller as constructed, in a run that follows pause_wanted.
PauseInit == main_pipeline(FALSE) /\ call = NoCall /\ pause_wanted = "no"

PauseSpec == PauseInit /\ [][PauseNext]_vars

\* --------------------------------------------------------------- claims

\* The postponed task without its ghost field.
Task(p_task) == [p_task EXCEPT !.superseded_by = "", !.recorded_in = "-"]

C2_TaskRunsAtSteadyState ==
    [][(/\ m_state \in {"starting", "seeking", "buffering"}
        /\ m_state' \in SteadyStates
        /\ m_postponed_task.m_type # "none")
       => m_postponed_task'.m_type = "none"]_vars

\* C3 (as stated): of the play_media calls with valid media made in one
\* transitional state only the last one has an effect once the transition
\* has completed: when the bus watch runs a postponed play task that a later
\* accepted call has superseded, the media of that later call is the current
\* or the next stream afterwards.
C3_LastCallSurvives ==
    [][(/\ m_state \in TransitionalStates
        /\ m_postponed_task.m_type = "play"
        /\ m_postponed_task.superseded_by # ""
        /\ m_postponed_task.recorded_in = m_state
        /\ last'.op = "bus_watch"
        /\ m_postponed_task'.m_type = "none"
        /\ m_state' = "starting"
        /\ m_current_stream'.m_media = m_postponed_task.m_media)
       => \/ m_current_stream'.m_media = m_postponed_task.superseded_by
          \/ m_next_stream'.m_media = m_postponed_task.superseded_by]_vars

\* C4: play_media with valid media in the states idle, playing and paused,
\* the engine working: if the state is idle, play_now is set or the token is
\* the current stream's, then afterwards the current stream has the token
\* and media of the call, there is no next stream and the state is starting;
\* otherwise the current stream and the state are as before and the next
\* stream has the token and media of the call.
C4_PlayMediaSlots ==
    [][(/\ last'.op = "play_media"
        /\ is_valid(last'.media)
        /\ m_state \in SteadyStates
        /\ ~last'.failed)
       => IF \/ m_state = "idle"
             \/ last'.play_now
             \/ (m_current_stream # NoStream /\ m_current_stream.m_token = last'.token)
          THEN /\ m_current_stream'.m_token = last'.token
               /\ m_current_stream'.m_media = last'.media
               /\ m_next_stream' = NoStream
               /\ m_state' = "starting"
               /\ last'.ret
          ELSE /\ m_current_stream' = m_current_stream
               /\ m_state' = m_state
               /\ m_next_stream'.m_token = last'.token
               /\ m_next_stream'.m_media = last'.media
               /\ last'.ret]_vars

\* C4, witness: a call with play_now false and another token than the playing
\* stream's has set the next stream.
C4_Witness ==
    /\ last.op = "play_media" /\ last.from = "playing"
    /\ ~last.play_now /\ ~last.same_token /\ last.ret
    /\ m_state = "playing"
    /\ m_next_stream.m_media = last.media /\ m_next_stream.m_token = last.token

\* C5 (as stated): after a play_media call with play_now and valid media
\* that returned true there is no next stream, in whatever state it was made.
C5_PlayNowClearsNextAlways ==
    [][(last'.op = "play_media" /\ last'.play_now /\ is_valid(last'.media) /\ last'.ret)
       => m_next_stream' = NoStream]_vars

\* C5 (amended): after a play_media call with play_now and valid media that
\* returned true there is no next stream if the call was made in the state
\* idle, playing or paused; made in a transitional state the call is
\* postponed and leaves the next stream as it is, and there is no next
\* stream once a postponed play task has been run.
C5_PlayNowClearsNext ==
    [][/\ (last'.op = "play_media" /\ last'.play_now /\ is_valid(last'.media)
           /\ last'.ret)
          => IF m_state \in TransitionalStates
             THEN /\ m_next_stream' = m_next_stream
                  /\ Task(m_postponed_task') =
                         PlayTask(last'.token, last'.media, last'.properties)
             ELSE m_next_stream' = NoStream
       /\ (/\ m_postponed_task.m_type = "play"
           /\ m_postponed_task'.m_type = "none"
           /\ m_state' = "starting")
          => m_next_stream' = NoStream]_vars

\* C5, witness: a call with play_now made while buffering was postponed and
\* the next stream is still there.
C5_Witness ==
    /\ last.op = "play_media" /\ last.play_now /\ last.ret
    /\ last.from = "buffering"
    /\ m_postponed_task.m_type = "play"
    /\ m_next_stream # NoStream

\* C6: after play_media(1, A, true), play_media(2, B, false) and
\* play_media(2, C, false), all made before A ends, the stream that is made
\* current when the end of A is reconciled is C.
C6_TokenScenario == scen = 4 => last.promoted = "C"

\* C6, witness: the end of A has been reconciled after the three calls.
C6_Witness == scen = 4 /\ last.promoted = "C"

\* C7: if the stream that was queued with token t has become the current
\* stream and the state is playing, play_media(t, Z, false) with valid Z and
\* the engine working discards it and starts Z as the current stream at once:
\* the state is starting, the engine is asked for PAUSED, there is no next
\* stream.
C7_SameTokenReplacesPromoted ==
    [][(/\ last'.op = "play_media"
        /\ ~last'.play_now
        /\ is_valid(last'.media)
        /\ m_state = "playing"
        /\ m_current_stream # NoStream
        /\ m_current_stream.queued
        /\ m_current_stream.m_token = last'.token
        /\ ~last'.failed)
       => /\ m_current_stream'.m_token = last'.token
          /\ m_current_stream'.m_media = last'.media
          /\ ~m_current_stream'.queued
          /\ ~m_current_stream'.linked
          /\ m_next_stream' = NoStream
          /\ m_state' = "starting"
          /\ gst_target' = "PAUSED"
          /\ last'.ret]_vars

\* C7, witness: play_media(t, Z, false) was called on a playing stream that
\* had been queued with token t, and Z is starting.
C7_Witness ==
    /\ last.op = "play_media" /\ ~last.play_now /\ last.ret
    /\ last.from = "playing" /\ last.on_promoted /\ last.same_token
    /\ m_state = "starting"
    /\ m_current_stream.m_media = last.media

\* C8 (as stated): once the EOS probe has seen the end of the current stream
\* while there is a next stream, no operation that holds the loop mutex
\* reads the slots as they were before the end.
C8_NoStaleRead == ~last.stale

\* C9 (as stated): play_media with the invalid media returns false, records
\* no postponed task and leaves the state, the current and the next stream
\* as they are, in every state and for both slots.
C9_InvalidMediaNoEffect ==
    [][(last'.op = "play_media" /\ ~is_valid(last'.media))
       => /\ ~last'.ret
          /\ Task(m_postponed_task') = Task(m_postponed_task)
          /\ m_state' = m_state
          /\ m_current_stream' = m_current_stream
          /\ m_next_stream' = m_next_stream]_vars

\* C10 (as stated): two calls set_paused(true) in a row on a playing current
\* stream that is known not to be live make one request to the engine.
C10_PauseTwiceOneRequest ==
    [][(/\ last.op = "set_paused" /\ last.paused
        /\ last.from = "playing"
        /\ m_state = "playing"
        /\ m_pipeline_elem
        /\ m_current_stream # NoStream
        /\ m_current_stream.m_is_live_status_known
        /\ ~m_current_stream.m_is_live
        /\ last'.op = "set_paused" /\ last'.paused)
       => last.nreq + last'.nreq = 1]_vars

\* The cases in which set_paused has nothing to do, whatever the value asked for.
CannotPause(p_state, p_stream) ==
    \/ p_state = "idle"
    \/ p_stream = NoStream
    \/ p_stream.m_is_live
    \/ ~p_stream.m_is_live_status_known

\* C11: set_paused makes no engine request and records no postponed task if
\* the state is idle, there is no current stream, the current stream is live
\* or its live status is not known; a postponed pause task that is run in
\* such a situation makes no engine request either.
C11_SetPausedIgnored ==
    [][/\ (last'.op = "set_paused" /\ CannotPause(m_state, m_current_stream))
          => /\ last'.nreq = 0
             /\ gst_target' = gst_target
             /\ Task(m_postponed_task') = Task(m_postponed_task)
             /\ m_state' = m_state
       /\ (last'.ran = "pause" /\ CannotPause(m_state', m_current_stream'))
          => last'.nreq = 0]_vars

\* C11, witness: set_paused was called on a playing stream known to be live
\* and made no request.
C11_Witness ==
    /\ last.op = "set_paused" /\ last.from = "playing" /\ m_state = "playing"
    /\ m_current_stream # NoStream
    /\ m_current_stream.m_is_live_status_known /\ m_current_stream.m_is_live
    /\ last.nreq = 0 /\ m_postponed_task.m_type = "none"

\* set_current_position finds a pipeline with a seekable current stream.
CanSeek ==
    m_pipeline_elem /\ m_current_stream # NoStream /\ m_current_stream.m_is_seekable

ProgramState ==
    <<m_state, m_current_stream, m_next_stream, Task(m_postponed_task),
      m_seeking_data, m_current_gstreamer_state, m_pending_gstreamer_state,
      m_pipeline_elem, m_stream_eos_seen, m_timeout_source, m_loop_mutex,
      gst_target, gst_state, bus>>

\* C13: a stop() call made in the state playing or paused returns with the
\* state idle, both slots empty and no postponed task; a stop() call made in
\* the state idle changes nothing.
C13_StopLeavesIdle ==
    [][last'.op = "stop"
       => CASE m_state \in {"playing", "paused"} ->
                   /\ m_state' = "idle"
                   /\ m_current_stream' = NoStream /\ m_next_stream' = NoStream
                   /\ m_postponed_task'.m_type = "none"
            [] m_state = "idle" -> ProgramState' = ProgramState
            [] OTHER -> TRUE]_vars

\* The controller is idle with nothing to play and nothing postponed.
IdleAndEmpty ==
    /\ m_state = "idle"
    /\ m_current_stream = NoStream /\ m_next_stream = NoStream
    /\ m_postponed_task.m_type = "none"

\* C14: when the bus watch has handled an error message in a state other
\* than idle, the error callback was called, the state is idle, both slots
\* are empty, no task is postponed, and nothing was requested of the engine.
C14_ErrorLeavesIdle ==
    [][(last'.callback = "error" /\ m_state # "idle")
       => /\ IdleAndEmpty'
          /\ last'.nreq = 0 /\ gst_target' = "NULL"]_vars

\* C15: a play_media call during which the pipeline could not be built
\* again returns false and leaves the controller idle, with both slots
\* empty and no postponed task.
C15_FailedRebuildLeavesIdle ==
    [][(last'.op = "play_media" /\ last'.failed /\ ~m_pipeline_elem')
       => (~last'.ret /\ IdleAndEmpty')]_vars

C18_MarkedErrorsDropped ==
    [][/\ (last'.sync # "-" /\ last'.src_marked)
          => (last'.sync = "DROP" /\ ProgramState' = ProgramState)
       /\ (last'.sync # "-" /\ ~last'.src_marked)
          => (last'.sync = "PASS" /\ bus' = Append(bus, ErrorMsg(FALSE)))
       /\ \A i \in 1..Len(bus') : bus'[i].type = "error" => ~bus'[i].src_marked
       /\ last'.callback = "error" => ~Head(bus).src_marked]_vars

\* C18, witness: the next stream was replaced while the first one played,
\* and an error message from the stream being destroyed has been dropped.
C18_Witness ==
    /\ last.sync = "DROP"
    /\ m_state = "playing" /\ m_next_stream # NoStream
    /\ bus = <<>>

\* C19: when the bus watch has called the end_of_stream callback, the
\* pipeline has been stopped and the state is idle, whatever the state was
\* when the EOS message arrived.
C19_EosCallbackWhenIdle ==
    [][last'.callback = "end_of_stream"
       => (m_state' = "idle" /\ m_postponed_task'.m_type = "none")]_vars

\* C20: neither an API call nor a handler of the event loop gets stuck: no
\* thread holds m_loop_mutex forever.
C20_NeverBlocked == m_loop_mutex = "unlocked"

\* C17: a play_media call during which the elements of the new stream could
\* not be created returns false, and the stream is in neither slot.
C17_FailedStreamNotInstalled ==
    [][(last'.op = "play_media" /\ last'.stream_failed)
       => /\ ~last'.ret
          /\ m_current_stream' # NoStream => m_current_stream'.m_uridecodebin_elem
          /\ m_next_stream' # NoStream => m_next_stream'.m_uridecodebin_elem]_vars


\* C21: every user callback, the state_changed callback included, runs on the
\* thread of the event loop: no call of an API function (play_media, stop,
\* set_paused, set_current_position) calls the state_changed callback, which
\* would then run on the thread of the caller.
C21_CallbacksOnEventLoop ==
    [][last'.state_changed => last'.op \notin ApiOps]_vars

\* C22: whenever the bus watch has called the media_started callback, the
\* next slot is empty (nothing the STREAM_START handler does after the
\* callback touches m_next_stream).
C22_MediaStartedWithoutNext ==
    [][last'.callback = "media_started" => m_next_stream' = NoStream]_vars

\* C23: with m_postpone_all_tags off, the tag list the GST_MESSAGE_TAG handler
\* passes to the new_tags callback holds no tag whose name is in
\* m_tags_to_always_postpone.
C23_PostponedTagsNotPassedDirectly ==
    [][(last'.by = "tag_handler" /\ ~m_postpone_all_tags)
       => \A i \in DOMAIN last'.new_tags :
             last'.new_tags[i].name \notin m_tags_to_always_postpone]_vars

\* C24: calculate_new_tags(reference, other) returns exactly the tags of
\* other, in their order and each with all its values, whose name the
\* reference does not have, or has with another number of values, or with
\* another value at some index; for an empty other that is the empty list.
C24_CalculateNewTags ==
    (call.fn = "calculate_new_tags" /\ call.returned)
    => LET reference == call.args[1]
           is_new(p_tag) ==
               \/ \A i \in DOMAIN reference : reference[i].name # p_tag.name
               \/ \E i \in DOMAIN reference :
                     /\ reference[i].name = p_tag.name
                     /\ \/ Len(reference[i].values) # Len(p_tag.values)
                        \/ \E k \in DOMAIN p_tag.values :
                              reference[i].values[k] # p_tag.values[k]
       IN call.result = SelectSeq(call.args[2], is_new)

C24_Witness ==
    /\ call.fn = "calculate_new_tags" /\ call.returned
    /\ call.args[1] = <<[name |-> "title", values |-> <<1>>]>>
    /\ call.args[2] = <<[name |-> "title", values |-> <<1>>],
                        [name |-> "bitrate", values |-> <<2>>]>>
    /\ call.result = <<[name |-> "bitrate", values |-> <<2>>]>>

\* C25: the effective buffer size limit is the configured limit when the
\* bitrate is 0, the estimation duration is 0 or the estimate is 0, and
\* otherwise min(configured limit, min(estimate, 2^32 - 1)), the estimate
\* being floor(duration * floor(bitrate / 8) / 10^9); it never exceeds the
\* configured limit.
C25_EffectiveBufferSizeLimit ==
    (call.fn = "update_buffer_limits" /\ call.returned)
    => LET bitrate == call.args[1]
           duration == call.args[2]
           limit == call.args[3]
           product == Times(duration, DividedBy(bitrate, 8))
           estimate == DividedBy(DividedBy(DividedBy(product, 1000), 1000), 1000)
       IN /\ call.result = IF bitrate = <<>> \/ duration = <<>> \/ estimate = <<>>
                           THEN limit
                           ELSE Min(limit, Min(estimate, G_MAXUINT))
          /\ ~Less(limit, call.result)

\* 128000 bit/s and 2 s with the default limit of 2 MiB: 32000 bytes.
C25_Witness ==
    /\ call.fn = "update_buffer_limits" /\ call.returned
    /\ call.args = <<<<0, 128>>, <<0, 0, 0, 2>>, <<152, 97, 2>>>>
    /\ call.result = <<0, 32>>

\* C26: a bus watch or timer invocation that finds m_stream_eos_seen raised
\* makes the next stream the current one, empties the next slot and clears
\* the flag before its handler looks at the slots (the media_started
\* callback of that invocation gets the promoted media); the EOS probe
\* raises the flag and changes neither slot.
C26_ReconciledBeforeHandling ==
    [][/\ (m_stream_eos_seen /\ last'.op \in {"bus_watch", "timeout_cb"})
          => /\ last'.promoted = m_next_stream.m_media
             /\ ~m_stream_eos_seen'
             /\ last'.callback = "media_started"
                   => m_current_stream'.m_media = m_next_stream.m_media
       /\ (~m_stream_eos_seen /\ m_stream_eos_seen')
          => /\ last'.op = "streaming_thread"
             /\ m_current_stream' = m_current_stream
             /\ m_next_stream' = m_next_stream]_vars

C26_Witness ==
    /\ last.op \in {"bus_watch", "timeout_cb"}
    /\ last.promoted \in ValidMedia
    /\ m_current_stream.m_media = last.promoted
    /\ m_next_stream = NoStream
    /\ ~m_stream_eos_seen

\* C27: no step enters the buffering state while the current stream is live
\* or its live status is not known.
C27_NoBufferingWhenLive ==
    [][(m_state # "buffering" /\ m_state' = "buffering")
       => /\ ~m_current_stream'.m_is_live
          /\ m_current_stream'.m_is_live_status_known]_vars

\* C28 as stated: when a buffering report clears the buffering flag of the
\* current stream in the buffering state, PLAYING is requested from the
\* engine and the state stays buffering; when the engine then reports
\* PLAYING, the state becomes playing and the postponed task is run.
C28_BufferingEnds ==
    [][/\ (/\ m_state = "buffering" /\ last'.op = "bus_watch" /\ bus' = bus
           /\ last'.promoted = "-"
           /\ m_current_stream.m_is_buffering /\ ~m_current_stream'.m_is_buffering)
          => /\ last'.nreq = 1 /\ gst_target' = "PLAYING"
             /\ m_state' = "buffering"
       /\ (/\ m_state = "buffering" /\ last'.op = "bus_watch" /\ bus # <<>>
           /\ Head(bus).type = "state_changed" /\ Head(bus).new = "PLAYING"
           /\ bus' = Tail(bus) /\ ~m_stream_eos_seen)
          => /\ last'.state_changed
             /\ last'.ran = m_postponed_task.m_type
             /\ m_postponed_task.m_type = "none" => m_state' = "playing"]_vars

\* C28 amended: the request is made at once if the engine has confirmed the
\* PAUSED state requested on entering buffering (m_current_gstreamer_state
\* is not PLAYING any more); the rest as stated.
C28_BufferingEndsOncePaused ==
    [][/\ (/\ m_state = "buffering" /\ last'.op = "bus_watch" /\ bus' = bus
           /\ last'.promoted = "-"
           /\ m_current_stream.m_is_buffering /\ ~m_current_stream'.m_is_buffering)
          => /\ m_current_gstreamer_state # "PLAYING"
                   => (last'.nreq = 1 /\ gst_target' = "PLAYING")
             /\ m_current_gstreamer_state = "PLAYING"
                   => (last'.nreq = 0 /\ gst_target' = gst_target)
             /\ m_state' = "buffering"
       /\ (/\ m_state = "buffering" /\ last'.op = "bus_watch" /\ bus # <<>>
           /\ Head(bus).type = "state_changed" /\ Head(bus).new = "PLAYING"
           /\ bus' = Tail(bus) /\ ~m_stream_eos_seen)
          => /\ last'.state_changed
             /\ last'.ran = m_postponed_task.m_type
             /\ m_postponed_task.m_type = "none" => m_state' = "playing"]_vars

C28_Witness ==
    /\ m_state = "buffering"
    /\ last.op = "bus_watch" /\ last.msg = "-" /\ last.nreq = 1
    /\ ~m_current_stream.m_is_buffering
    /\ m_current_gstreamer_state = "PAUSED"
    /\ gst_target = "PLAYING"

\* C29: a STATE_CHANGED message to PAUSED handled in the state buffering while
\* the current stream's buffering flag is cleared makes the controller
\* request PLAYING; the state buffering with the flag cleared is left only
\* for playing, as long as the stream is not discarded and no postponed task
\* is run; and with the engine carrying out its state changes and the bus
\* being dispatched, a controller in buffering whose flag was cleared before
\* the PAUSED confirmation does not stay so: it reaches playing, unless the
\* stream starts buffering again or is discarded, a postponed task is run,
\* the pipeline is lost or the event loop stops.
C29_BufferingEndedEarly ==
    /\ [][/\ (/\ m_state = "buffering" /\ last'.msg = "state_changed"
               /\ Head(bus).new = "PAUSED" /\ ~m_stream_eos_seen
               /\ m_current_stream # NoStream /\ ~m_current_stream.m_is_buffering)
              => /\ last'.nreq = 1 /\ gst_target' = "PLAYING"
                 /\ m_state' = "buffering"
          /\ (/\ m_state = "buffering" /\ m_state' # "buffering"
              /\ m_current_stream # NoStream /\ ~m_current_stream.m_is_buffering
              /\ m_current_stream' # NoStream /\ last'.ran = "none")
              => m_state' = "playing"]_vars
    /\ (/\ m_state = "buffering" /\ m_pipeline_elem /\ LoopMutexFree
        /\ m_current_gstreamer_state = "PLAYING"
        /\ m_current_stream # NoStream /\ ~m_current_stream.m_is_buffering)
          ~> (\/ m_state = "playing" \/ ~m_pipeline_elem \/ ~LoopMutexFree
              \/ m_current_stream = NoStream \/ m_current_stream.m_is_buffering
              \/ last.ran # "none")

\* C29, witness: the PAUSED confirmation arrived in the state buffering after
\* the flag was cleared, and PLAYING was requested.
C29_Witness ==
    /\ m_state = "buffering"
    /\ last.msg = "state_changed" /\ last.nreq = 1
    /\ ~m_current_stream.m_is_buffering
    /\ m_current_gstreamer_state = "PAUSED"
    /\ gst_target = "PLAYING"

\* C30 as stated: a buffering report of the current stream that leaves its
\* buffering flag as it was makes no engine state request and does not
\* change the state of the controller.
C30_UnchangedFlagNoEffect ==
    [][(last'.flag_kept /\ ~m_stream_eos_seen)
          => /\ last'.nreq = 0 /\ gst_target' = gst_target
             /\ m_state' = m_state]_vars

\* C30 amended: such a report has no effect unless it is below 100% and
\* finds the flag set in a state other than buffering and starting; then
\* the buffering state is rechecked, which in the state playing with a
\* stream known not to be live enters buffering and requests PAUSED, and
\* has no effect otherwise.
C30_UnchangedFlagRecheck ==
    [][(last'.flag_kept /\ ~m_stream_eos_seen)
          => IF /\ m_current_stream.m_is_buffering /\ m_state = "playing"
                /\ ~m_current_stream.m_is_live
                /\ m_current_stream.m_is_live_status_known
             THEN /\ m_state' = "buffering"
                  /\ m_current_gstreamer_state # "PAUSED"
                        => (last'.nreq = 1 /\ gst_target' = "PAUSED")
                  /\ m_current_gstreamer_state = "PAUSED"
                        => (last'.nreq = 0 /\ gst_target' = gst_target)
             ELSE /\ last'.nreq = 0 /\ gst_target' = gst_target
                  /\ m_state' = m_state]_vars

\* C30, witness: a report below 100% found the flag of the current stream
\* set in the state playing, and the controller has entered buffering.
C30_Witness ==
    /\ last.flag_kept
    /\ last.state_changed /\ m_state = "buffering"
    /\ m_current_stream.m_is_buffering

\* C31: whenever a next stream exists, its buffering is blocked exactly if
\* the current stream is buffering, a next stream created while the current
\* one is buffering included.
C31_NextBlockedWhileCurrentBuffers ==
    (m_current_stream # NoStream /\ m_next_stream # NoStream /\ ~m_stream_eos_seen)
        => (m_next_stream.m_buffering_is_blocked = m_current_stream.m_is_buffering)

\* C32: with m_postpone_all_tags off, every tag the GST_MESSAGE_TAG handler
\* found new (the tags it has put into m_aggregated_tag_list) is, with its
\* values, either in m_postponed_tags_list after the handler or in the list
\* the handler passed to the new_tags callback.
C32_NoTagLost ==
    [][(last'.op = "bus_watch" /\ ~m_postpone_all_tags)
       => \A i \in DOMAIN m_aggregated_tag_list' :
             LET tag == m_aggregated_tag_list'[i]
             IN (\A k \in DOMAIN m_aggregated_tag_list : m_aggregated_tag_list[k] # tag)
                => \/ \E k \in DOMAIN m_postponed_tags_list' :
                         m_postponed_tags_list'[k] = tag
                   \/ /\ last'.by = "tag_handler"
                      /\ \E k \in DOMAIN last'.new_tags : last'.new_tags[k] = tag]_vars

\* C33: the destructor returns, whatever state the controller is in, and
\* when it has returned the pipeline is shut down, the current and the next
\* stream are discarded, and the postponed task is cancelled and was not
\* run.
C33_DestructorTearsDown ==
    call.fn = "~main_pipeline"
        => /\ call.returned
           /\ ~m_pipeline_elem
           /\ m_current_stream = NoStream /\ m_next_stream = NoStream
           /\ m_postponed_task.m_type = "none" /\ last.ran = "none"

\* C34: no stream is destroyed while its buffering is blocked: whatever
\* discards a stream has called block_buffering(false) on it before its
\* elements are set to NULL.
C34_NotDestroyedWhileBlocked == ~last.destroyed_blocked

\* C35: a streaming thread that waits in static_buffering_block_probe does
\* not go on waiting once a call of block_buffering(false) has returned.
C35_NoLostWakeup ==
    ~(/\ probe = "waiting"
      /\ call.fn = "block_buffering" /\ call.returned /\ ~call.args[1])

\* C36: whenever the GST_MESSAGE_TAG handler passes a tag list to the
\* new_tags callback, there is a current stream, whose media and token the
\* handler reads for the call.
C36_CurrentStreamAtTagCallback ==
    last.by = "tag_handler" => m_current_stream # NoStream

\* C37: the current slot is empty only in the state idle: in the states
\* starting, seeking, buffering, playing and paused there is a current
\* stream.
C37_CurrentStreamUnlessIdle ==
    m_current_stream = NoStream => m_state = "idle"

\* C38: whenever the controller is idle and no operation holds the loop
\* mutex, both slots are empty, no postponed task is pending,
\* get_current_position returns -1 whatever the engine would answer, and
\* get_duration returns -1 in both units.
C38_IdleIsEmpty ==
    (m_state = "idle" /\ LoopMutexFree) =>
        /\ m_current_stream = NoStream
        /\ m_next_stream = NoStream
        /\ m_postponed_task.m_type = "none"
        /\ \A q \in Positions : get_current_position(S, q) = -1
        /\ \A u \in Units : get_duration(S, u) = -1

\* A stop call has ended the playback of a media.
C38_Witness ==
    /\ m_state = "idle"
    /\ LoopMutexFree
    /\ last.op = "stop"
    /\ last.from = "playing"
    /\ last.state_changed

\* C39: when the bus watch handles an engine's state request in a
\* transitional state in which a task of a play_media, stop, set_paused or
\* set_current_position call is postponed, the postponed task is afterwards
\* the caller's task still.
CallerTasks == {"play", "stop", "pause", "set_position"}
C39_RequestKeepsCallersTask ==
    [][(/\ last'.op = "bus_watch"
        /\ last'.msg = "request_state"
        /\ is_transitioning_nolock(S)
        /\ m_postponed_task.m_type \in CallerTasks)
       => m_postponed_task'.m_type = m_postponed_task.m_type]_vars

\* C40: once set_paused(true) was called in state playing with a current
\* stream that is known not to be live, and no play_media, stop or
\* set_paused(false) call was made since and the media neither ended nor
\* failed, the controller does not come to rest in the state playing: it is
\* not playing with the engine in PLAYING as last requested, no message on
\* the bus and no postponed task, where only a new call can make it pause.
C40_PauseIsReached ==
    ~(/\ pause_wanted = "yes"
      /\ m_state = "playing"
      /\ LoopMutexFree
      /\ gst_target = "PLAYING" /\ gst_state = "PLAYING"
      /\ m_current_gstreamer_state = "PLAYING"
      /\ m_pending_gstreamer_state = "VOID_PENDING"
      /\ bus = <<>>
      /\ m_postponed_task.m_type = "none")
====
